---- MODULE Spec2Model ----
(***************************************************************************)
(* The trampoline orchestrator of internal/orchestrator: the continuation  *)
(* stack, the dispatch loop of AnalyzeDocument, the file-backed response   *)
(* cache (cache.go) and the state snapshot (state.go).                     *)
(*                                                                         *)
(* Conventions.                                                            *)
(*  - A Go pointer or an optional file is a sequence: Nil (<<>>) when      *)
(*    absent, <<v>> when present.                                          *)
(*  - A Go map is a function; the nil map and the empty map are both the   *)
(*    empty function (reads of a nil map behave like reads of an empty     *)
(*    one, and processResult allocates before it writes).                  *)
(*  - A JSON document is the record of the fields present in it.           *)
(*  - sha256 is taken to be collision free: a cache file is named by the   *)
(*    string that GenerateCacheKey hashes.                                 *)
(*  - CostUSD is counted in whole thousandths of a dollar.                 *)
(*  - Timestamps (Stats.StartTime, State.Timestamp) are left out, the      *)
(*    cache entry's Timestamp is kept: the TTL test reads it.              *)
(***************************************************************************)
EXTENDS Integers, Sequences, FiniteSets, TLC

VARIABLES
    dispatcher,     \* Orchestrator.dispatcher: TRUE once SetDispatcher was called
    stack,          \* Orchestrator.stack
    currentTask,    \* Orchestrator.currentTask
    results,        \* Orchestrator.results
    stats,          \* Orchestrator.stats
    iterations,     \* local variable of AnalyzeDocument
    result,         \* local variable of AnalyzeDocument: Nil or <<SubagentResult>>
    pc,             \* position of the controller in AnalyzeDocument
    ret,            \* what the last AnalyzeDocument returned: [val, err]
    stateFile,      \* WorkDir/.rlm_state.json: Nil or <<JSON document>>
    cacheFiles,     \* WorkDir/.rlm_cache: file name -> JSON document
    now,            \* wall clock
    cacheEnabled,   \* Config.CacheEnabled
    h               \* history of the current invocation (observation only)

vars == <<dispatcher, stack, currentTask, results, stats, iterations, result,
          pc, ret, stateFile, cacheFiles, now, cacheEnabled, h>>

(***************************************************************************)
(* Bounds of the model.                                                    *)
(***************************************************************************)
MaxRecursionDepth == 2
MaxIterations == 3
MaxOutcomes == 3
MaxRuns == 2
MaxTime == 2

(***************************************************************************)
(* Program constants and configuration.                                    *)
(***************************************************************************)
CacheTTL == 1
ResultTypeContinuation == 0
ResultTypeAnalysis == 1
ResultTypeUnknown == 2

Nil == <<>>
EmptyMap == <<>>

ErrNone == "nil"
ErrMaxDepthExceeded == "maximum recursion depth exceeded"
ErrMaxIterationsExceeded == "maximum iterations exceeded"
ErrNoDispatcher == "no subagent dispatcher configured"
ErrDispatchFailed == "subagent dispatch failed"
ErrUnknownResultType == "unknown result type"

(***************************************************************************)
(* Inputs: what callers pass to AnalyzeDocument and what the dispatcher    *)
(* may answer.                                                             *)
(***************************************************************************)
Paths == {"doc"}
Queries == {"q1", "q2"}

AnalysisResults ==
    { [Content |-> "r1", TokenCount |-> 1, CostUSD |-> 3],
      [Content |-> "r2", TokenCount |-> 2, CostUSD |-> 1] }

ContinuationRequests ==
    { [AgentType |-> "Worker", Task |-> "sub", Context |-> EmptyMap, ReturnTo |-> "A"],
      [AgentType |-> "", Task |-> "sub", Context |-> EmptyMap, ReturnTo |-> "B"] }

\* the answers of the dispatcher function: (*SubagentResult, error)
DispatcherAnswers ==
    { [res |-> <<[Type |-> ResultTypeContinuation, Continuation |-> <<c>>, Analysis |-> Nil]>>,
       err |-> FALSE] : c \in ContinuationRequests }
    \cup
    { [res |-> <<[Type |-> ResultTypeAnalysis, Continuation |-> Nil, Analysis |-> <<a>>]>>,
       err |-> FALSE] : a \in AnalysisResults }
    \cup
    { [res |-> <<[Type |-> t, Continuation |-> Nil, Analysis |-> Nil]>>,
       err |-> FALSE] :
        t \in {ResultTypeContinuation, ResultTypeAnalysis, ResultTypeUnknown} }
    \cup
    { [res |-> Nil, err |-> TRUE] }

\* the error value a failing dispatcher returns
DispatcherError == "dispatcher error"

(***************************************************************************)
(* task.go                                                                 *)
(***************************************************************************)
ZeroTask ==
    [AgentType |-> "", TaskDescription |-> "", Context |-> EmptyMap,
     Depth |-> 0, ReturnTo |-> Nil, ChildResults |-> EmptyMap]

ZeroStats ==
    [TotalSubagentCalls |-> 0, TotalTokens |-> 0, TotalCostUSD |-> 0,
     MaxDepthReached |-> 0, CacheHits |-> 0]

IsContinuation(r) == r.Type = ResultTypeContinuation /\ r.Continuation # Nil

IsAnalysis(r) == r.Type = ResultTypeAnalysis /\ r.Analysis # Nil

\* the root task AnalyzeDocument builds from its arguments
RootTask(documentPath, query) ==
    [AgentType |-> "Explorer", TaskDescription |-> query,
     Context |-> [document_path |-> documentPath, query |-> query],
     Depth |-> 0, ReturnTo |-> Nil, ChildResults |-> EmptyMap]

(***************************************************************************)
(* cache.go: GenerateCacheKey                                              *)
(***************************************************************************)
\* the context keys of the model in the order sort.Strings gives them
ContextKeys == <<"document_path", "query">>

JSONString(s) == "\"" \o s \o "\""

RECURSIVE JSONMembers(_, _, _)
JSONMembers(ctx, i, first) ==
    IF i > Len(ContextKeys) THEN ""
    ELSE IF ContextKeys[i] \in DOMAIN ctx
         THEN (IF first THEN "" ELSE ",")
              \o JSONString(ContextKeys[i]) \o ":" \o JSONString(ctx[ContextKeys[i]])
              \o JSONMembers(ctx, i + 1, FALSE)
         ELSE JSONMembers(ctx, i + 1, first)

ContextJSON(ctx) == "{" \o JSONMembers(ctx, 1, TRUE) \o "}"

\* a key that also depends on the depth of the task
GenerateCacheKey_WithDepth(task) ==
    task.AgentType \o "|" \o task.TaskDescription \o "|" \o ContextJSON(task.Context)
        \o "|" \o ToString(task.Depth)

\* a key that leaves the agent type out
GenerateCacheKey_NoAgentType(task) ==
    task.TaskDescription \o "|" \o ContextJSON(task.Context)

GenerateCacheKey(task) ==
    task.AgentType \o "|" \o task.TaskDescription \o "|" \o ContextJSON(task.Context)

(***************************************************************************)
(* cache.go: CheckCache and StoreCache                                     *)
(***************************************************************************)
EncodeAnalysis(a) ==
    [content |-> a.Content, token_count |-> a.TokenCount, cost_usd |-> a.CostUSD]

DecodeAnalysis(j) ==
    [Content |-> j.content, TokenCount |-> j.token_count, CostUSD |-> j.cost_usd]

\* the content of a file that json.Unmarshal rejects (a write cut short, a
\* damaged file)
Malformed == [syntax_error |-> TRUE]

\* json.Unmarshal of the file content succeeds
Unmarshals(doc) == "syntax_error" \notin DOMAIN doc

RemoveFile(files, name) == [n \in DOMAIN files \ {name} |-> files[n]]

\* an entry that expires as soon as its age reaches the TTL
Expired_AtTTL(entry, t) == t - entry.timestamp >= entry.ttl

\* time.Since(entry.Timestamp) > entry.TTL
Expired(entry, t) == t - entry.timestamp > entry.ttl

\* CheckCache with the TTL test turned around
CheckCache_TTLInverted(enabled, files, task, t) ==
    LET cacheKey == GenerateCacheKey(task) IN
    IF ~enabled THEN [result |-> Nil, files |-> files]
    ELSE IF cacheKey \notin DOMAIN files THEN [result |-> Nil, files |-> files]
    ELSE IF ~Unmarshals(files[cacheKey]) THEN [result |-> Nil, files |-> files]
    ELSE IF ~Expired(files[cacheKey], t)
         THEN [result |-> Nil, files |-> RemoveFile(files, cacheKey)]
    ELSE [result |-> <<DecodeAnalysis(files[cacheKey].result)>>, files |-> files]

\* CheckCache that empties the cache directory when a file does not parse
CheckCache_ParseFailureClears(enabled, files, task, t) ==
    LET cacheKey == GenerateCacheKey(task) IN
    IF ~enabled THEN [result |-> Nil, files |-> files]
    ELSE IF cacheKey \notin DOMAIN files THEN [result |-> Nil, files |-> files]
    ELSE IF ~Unmarshals(files[cacheKey]) THEN [result |-> Nil, files |-> <<>>]
    ELSE IF Expired(files[cacheKey], t)
         THEN [result |-> Nil, files |-> RemoveFile(files, cacheKey)]
    ELSE [result |-> <<DecodeAnalysis(files[cacheKey].result)>>, files |-> files]

\* CheckCache that reads the directory also when the cache is disabled
CheckCache_IgnoresEnabled(enabled, files, task, t) ==
    LET cacheKey == GenerateCacheKey(task) IN
    IF cacheKey \notin DOMAIN files THEN [result |-> Nil, files |-> files]
    ELSE IF ~Unmarshals(files[cacheKey]) THEN [result |-> Nil, files |-> files]
    ELSE IF Expired(files[cacheKey], t)
         THEN [result |-> Nil, files |-> RemoveFile(files, cacheKey)]
    ELSE [result |-> <<DecodeAnalysis(files[cacheKey].result)>>, files |-> files]

\* CheckCache: the cached result (Nil on a miss) and the cache directory it leaves
CheckCache(enabled, files, task, t) ==
    LET cacheKey == GenerateCacheKey(task) IN
    IF ~enabled THEN [result |-> Nil, files |-> files]
    ELSE IF cacheKey \notin DOMAIN files THEN [result |-> Nil, files |-> files]
    ELSE IF ~Unmarshals(files[cacheKey]) THEN [result |-> Nil, files |-> files]
    ELSE IF Expired(files[cacheKey], t)
         THEN [result |-> Nil, files |-> RemoveFile(files, cacheKey)]
    ELSE [result |-> <<DecodeAnalysis(files[cacheKey].result)>>, files |-> files]

\* StoreCache that does not rewrite a file that is already there
StoreCache_KeepsOld(enabled, files, task, a, t) ==
    IF ~enabled THEN files
    ELSE files
         @@ (GenerateCacheKey(task) :>
               [result |-> EncodeAnalysis(a), timestamp |-> t, ttl |-> CacheTTL])

\* StoreCache: the cache directory after the write
StoreCache(enabled, files, task, a, t) ==
    IF ~enabled THEN files
    ELSE (GenerateCacheKey(task) :>
            [result |-> EncodeAnalysis(a), timestamp |-> t, ttl |-> CacheTTL])
         @@ files

(***************************************************************************)
(* state.go: the JSON document SaveState writes and LoadState reads        *)
(***************************************************************************)
EncodeResults(m) == [k \in DOMAIN m |-> EncodeAnalysis(m[k])]

DecodeResults(j) == [k \in DOMAIN j |-> DecodeAnalysis(j[k])]

\* return_to and child_results carry omitempty
EncodeTask(t) ==
    [agent_type |-> t.AgentType, task_description |-> t.TaskDescription,
     context |-> t.Context, depth |-> t.Depth]
    @@ (IF t.ReturnTo # Nil THEN "return_to" :> t.ReturnTo[1] ELSE <<>>)
    @@ (IF DOMAIN t.ChildResults # {}
        THEN "child_results" :> EncodeResults(t.ChildResults) ELSE <<>>)

DecodeTask(j) ==
    [AgentType |-> j.agent_type, TaskDescription |-> j.task_description,
     Context |-> j.context, Depth |-> j.depth,
     ReturnTo |-> IF "return_to" \in DOMAIN j THEN <<j.return_to>> ELSE Nil,
     ChildResults |-> IF "child_results" \in DOMAIN j
                      THEN DecodeResults(j.child_results) ELSE EmptyMap]

EncodeStats(s) ==
    [total_subagent_calls |-> s.TotalSubagentCalls, total_tokens |-> s.TotalTokens,
     total_cost_usd |-> s.TotalCostUSD, max_depth_reached |-> s.MaxDepthReached,
     cache_hits |-> s.CacheHits]

DecodeStats(j) ==
    [TotalSubagentCalls |-> j.total_subagent_calls, TotalTokens |-> j.total_tokens,
     TotalCostUSD |-> j.total_cost_usd, MaxDepthReached |-> j.max_depth_reached,
     CacheHits |-> j.cache_hits]

\* SaveState that leaves the results out of the document
SaveState_NoResults(stk, cur, res, sts) ==
    [stack |-> [i \in 1..Len(stk) |-> EncodeTask(stk[i])],
     current_task |-> EncodeTask(cur),
     results |-> EncodeResults(EmptyMap),
     stats |-> EncodeStats(sts)]

\* SaveState: the document written to .rlm_state.json
SaveState(stk, cur, res, sts) ==
    [stack |-> [i \in 1..Len(stk) |-> EncodeTask(stk[i])],
     current_task |-> EncodeTask(cur),
     results |-> EncodeResults(res),
     stats |-> EncodeStats(sts)]

\* LoadState that does not assign o.stats
LoadState_NoStats(doc) ==
    [stack |-> [i \in 1..Len(doc.stack) |-> DecodeTask(doc.stack[i])],
     currentTask |-> DecodeTask(doc.current_task),
     results |-> DecodeResults(doc.results),
     stats |-> ZeroStats]

\* LoadState: the fields of the orchestrator after reading the document
LoadState(doc) ==
    [stack |-> [i \in 1..Len(doc.stack) |-> DecodeTask(doc.stack[i])],
     currentTask |-> DecodeTask(doc.current_task),
     results |-> DecodeResults(doc.results),
     stats |-> DecodeStats(doc.stats)]

HasState == stateFile # Nil

\* HasState and LoadState without an error: the snapshot is assigned to the
\* orchestrator
Restorable == HasState /\ Unmarshals(stateFile[1])

(***************************************************************************)
(* orchestrator.go: processResult                                          *)
(***************************************************************************)
\* processResult that pushes the current task without its ChildResults
processResultOn_PushesBare(stk, cur, res, sts, files, r) ==
    LET unchanged == [stack |-> stk, currentTask |-> cur,
                      results |-> res, stats |-> sts,
                      cacheFiles |-> files, err |-> ErrNone]
    IN
    IF IsContinuation(r) THEN
        LET c == r.Continuation[1] IN
        [unchanged EXCEPT
            !.stack = Append(stk, [cur EXCEPT !.ChildResults = EmptyMap]),
            !.currentTask =
                [AgentType |-> c.AgentType, TaskDescription |-> c.Task,
                 Context |-> c.Context, Depth |-> cur.Depth + 1,
                 ReturnTo |-> <<c.ReturnTo>>, ChildResults |-> EmptyMap]]
    ELSE IF IsAnalysis(r) THEN
        LET a == r.Analysis[1]
            counted == [sts EXCEPT !.TotalTokens = @ + a.TokenCount,
                                   !.TotalCostUSD = @ + a.CostUSD]
            stored == StoreCache(cacheEnabled, files, cur, a, now)
            parentTask == stk[Len(stk)]
        IN
        IF Len(stk) > 0 THEN
            [unchanged EXCEPT
                !.stats = counted,
                !.cacheFiles = stored,
                !.results = IF cur.ReturnTo # Nil
                            THEN (cur.ReturnTo[1] :> a) @@ res
                            ELSE res,
                !.stack = SubSeq(stk, 1, Len(stk) - 1),
                !.currentTask =
                    IF cur.ReturnTo # Nil
                    THEN [parentTask EXCEPT
                            !.ChildResults = (cur.ReturnTo[1] :> a) @@ @]
                    ELSE parentTask]
        ELSE [unchanged EXCEPT !.stats = counted, !.cacheFiles = stored]
    ELSE [unchanged EXCEPT !.err = ErrUnknownResultType]

\* processResult that hands the result to the parent only, not to o.results
processResultOn_NoCrossFrameResult(stk, cur, res, sts, files, r) ==
    LET unchanged == [stack |-> stk, currentTask |-> cur,
                      results |-> res, stats |-> sts,
                      cacheFiles |-> files, err |-> ErrNone]
    IN
    IF IsContinuation(r) THEN
        LET c == r.Continuation[1] IN
        [unchanged EXCEPT
            !.stack = Append(stk, cur),
            !.currentTask =
                [AgentType |-> c.AgentType, TaskDescription |-> c.Task,
                 Context |-> c.Context, Depth |-> cur.Depth + 1,
                 ReturnTo |-> <<c.ReturnTo>>, ChildResults |-> EmptyMap]]
    ELSE IF IsAnalysis(r) THEN
        LET a == r.Analysis[1]
            counted == [sts EXCEPT !.TotalTokens = @ + a.TokenCount,
                                   !.TotalCostUSD = @ + a.CostUSD]
            stored == StoreCache(cacheEnabled, files, cur, a, now)
            parentTask == stk[Len(stk)]
        IN
        IF Len(stk) > 0 THEN
            [unchanged EXCEPT
                !.stats = counted,
                !.cacheFiles = stored,
                !.stack = SubSeq(stk, 1, Len(stk) - 1),
                !.currentTask =
                    IF cur.ReturnTo # Nil
                    THEN [parentTask EXCEPT
                            !.ChildResults = (cur.ReturnTo[1] :> a) @@ @]
                    ELSE parentTask]
        ELSE [unchanged EXCEPT !.stats = counted, !.cacheFiles = stored]
    ELSE [unchanged EXCEPT !.err = ErrUnknownResultType]

\* processResult that stores the result after it made the parent current
processResultOn_StoresAfterPop(stk, cur, res, sts, files, r) ==
    LET unchanged == [stack |-> stk, currentTask |-> cur,
                      results |-> res, stats |-> sts,
                      cacheFiles |-> files, err |-> ErrNone]
    IN
    IF IsContinuation(r) THEN
        LET c == r.Continuation[1] IN
        [unchanged EXCEPT
            !.stack = Append(stk, cur),
            !.currentTask =
                [AgentType |-> c.AgentType, TaskDescription |-> c.Task,
                 Context |-> c.Context, Depth |-> cur.Depth + 1,
                 ReturnTo |-> <<c.ReturnTo>>, ChildResults |-> EmptyMap]]
    ELSE IF IsAnalysis(r) THEN
        LET a == r.Analysis[1]
            counted == [sts EXCEPT !.TotalTokens = @ + a.TokenCount,
                                   !.TotalCostUSD = @ + a.CostUSD]
            parentTask == stk[Len(stk)]
            stored == StoreCache(cacheEnabled, files,
                                 IF Len(stk) > 0 THEN parentTask ELSE cur, a, now)
        IN
        IF Len(stk) > 0 THEN
            [unchanged EXCEPT
                !.stats = counted,
                !.cacheFiles = stored,
                !.results = IF cur.ReturnTo # Nil
                            THEN (cur.ReturnTo[1] :> a) @@ res
                            ELSE res,
                !.stack = SubSeq(stk, 1, Len(stk) - 1),
                !.currentTask =
                    IF cur.ReturnTo # Nil
                    THEN [parentTask EXCEPT
                            !.ChildResults = (cur.ReturnTo[1] :> a) @@ @]
                    ELSE parentTask]
        ELSE [unchanged EXCEPT !.stats = counted, !.cacheFiles = stored]
    ELSE [unchanged EXCEPT !.err = ErrUnknownResultType]

\* processResult(r) on an orchestrator with the fields stk, cur, res, sts and
\* the cache directory files: the fields and directory after it, and its error
processResultOn(stk, cur, res, sts, files, r) ==
    LET unchanged == [stack |-> stk, currentTask |-> cur,
                      results |-> res, stats |-> sts,
                      cacheFiles |-> files, err |-> ErrNone]
    IN
    IF IsContinuation(r) THEN
        LET c == r.Continuation[1] IN
        [unchanged EXCEPT
            !.stack = Append(stk, cur),
            !.currentTask =
                [AgentType |-> c.AgentType, TaskDescription |-> c.Task,
                 Context |-> c.Context, Depth |-> cur.Depth + 1,
                 ReturnTo |-> <<c.ReturnTo>>, ChildResults |-> EmptyMap]]
    ELSE IF IsAnalysis(r) THEN
        LET a == r.Analysis[1]
            counted == [sts EXCEPT !.TotalTokens = @ + a.TokenCount,
                                   !.TotalCostUSD = @ + a.CostUSD]
            stored == StoreCache(cacheEnabled, files, cur, a, now)
            parentTask == stk[Len(stk)]
        IN
        IF Len(stk) > 0 THEN
            [unchanged EXCEPT
                !.stats = counted,
                !.cacheFiles = stored,
                !.results = IF cur.ReturnTo # Nil
                            THEN (cur.ReturnTo[1] :> a) @@ res
                            ELSE res,
                !.stack = SubSeq(stk, 1, Len(stk) - 1),
                !.currentTask =
                    IF cur.ReturnTo # Nil
                    THEN [parentTask EXCEPT
                            !.ChildResults = (cur.ReturnTo[1] :> a) @@ @]
                    ELSE parentTask]
        ELSE [unchanged EXCEPT !.stats = counted, !.cacheFiles = stored]
    ELSE [unchanged EXCEPT !.err = ErrUnknownResultType]

\* the orchestrator fields and cache directory after processResult(r), and its error
processResult(r) ==
    processResultOn(stack, currentTask, results, stats, cacheFiles, r)

(***************************************************************************)
(* History of the current invocation of AnalyzeDocument.  Nothing the      *)
(* program does reads it.                                                  *)
(*   runs      invocations that entered the loop so far                    *)
(*   total     outcomes obtained by all invocations so far                 *)
(*   entered   an invocation on this Orchestrator value entered the loop   *)
(*   first     this one is the first that did                              *)
(*   fresh     the invocation restored no snapshot                         *)
(*   args      the documentPath and query it was given                     *)
(*   loaded    the stats it restored from the snapshot                     *)
(*   calls     dispatcher invocations it made                              *)
(*   resolved  outcomes it obtained, from the dispatcher or from the cache *)
(*   task      the task of the iteration in progress or of the one that    *)
(*             ended the invocation, stackLen the stack size when it was   *)
(*             dispatched, hit whether the cache answered it               *)
(*   onlyCont  every answer of the dispatcher was a continuation           *)
(*   onlyTerm  every answer of the dispatcher was an analysis result       *)
(*   saved     the latest iteration ended in a SaveState that succeeded    *)
(*   stored    the latest StoreCache of processResult wrote its file       *)
(*   memo      a cache file for the root task of args existed at the start *)
(***************************************************************************)
NoHistory ==
    [runs |-> 0, total |-> 0, entered |-> FALSE, first |-> TRUE, fresh |-> TRUE,
     args |-> [documentPath |-> "", query |-> ""], loaded |-> ZeroStats,
     calls |-> 0, resolved |-> 0, task |-> ZeroTask, stackLen |-> 0,
     hit |-> FALSE, onlyCont |-> TRUE, onlyTerm |-> TRUE, saved |-> FALSE,
     stored |-> TRUE, memo |-> FALSE]

NoReturn == [val |-> Nil, err |-> ErrNone]

Returned == {"idle", "done", "failed"}

Init ==
    /\ dispatcher = FALSE
    /\ stack = <<>>
    /\ currentTask = ZeroTask
    /\ results = EmptyMap
    /\ stats = ZeroStats
    /\ iterations = 0
    /\ result = Nil
    /\ pc = "idle"
    /\ ret = NoReturn
    /\ stateFile = Nil
    /\ cacheFiles = <<>>
    /\ now = 0
    /\ cacheEnabled \in BOOLEAN
    /\ h = NoHistory

(***************************************************************************)
(* orchestrator.go: New, at the start of a new process.  The files of the  *)
(* working directory stay.                                                 *)
(***************************************************************************)
\* a New that empties the cache directory of the working directory
New_ClearsCache ==
    /\ pc \in {"check", "done", "failed", "panic"}
    /\ dispatcher' = FALSE
    /\ stack' = <<>>
    /\ currentTask' = ZeroTask
    /\ results' = EmptyMap
    /\ stats' = ZeroStats
    /\ iterations' = 0
    /\ result' = Nil
    /\ pc' = "idle"
    /\ ret' = NoReturn
    /\ h' = [NoHistory EXCEPT !.runs = h.runs, !.total = h.total]
    /\ cacheFiles' = <<>>
    /\ UNCHANGED <<stateFile, now, cacheEnabled>>

New ==
    /\ pc \in {"check", "done", "failed", "panic"}
    /\ dispatcher' = FALSE
    /\ stack' = <<>>
    /\ currentTask' = ZeroTask
    /\ results' = EmptyMap
    /\ stats' = ZeroStats
    /\ iterations' = 0
    /\ result' = Nil
    /\ pc' = "idle"
    /\ ret' = NoReturn
    /\ h' = [NoHistory EXCEPT !.runs = h.runs, !.total = h.total]
    /\ UNCHANGED <<stateFile, cacheFiles, now, cacheEnabled>>

\* between two processes the snapshot file is damaged, or the write that the
\* old process died in was cut short
CorruptState ==
    /\ pc = "idle"
    /\ Restorable
    /\ stateFile' = <<Malformed>>
    /\ UNCHANGED <<dispatcher, stack, currentTask, results, stats, iterations,
                   result, pc, ret, cacheFiles, now, cacheEnabled, h>>

\* between two processes a file of the cache directory is damaged
CorruptCache ==
    /\ pc = "idle"
    /\ \E k \in DOMAIN cacheFiles :
          /\ Unmarshals(cacheFiles[k])
          /\ cacheFiles' = [cacheFiles EXCEPT ![k] = Malformed]
    /\ UNCHANGED <<dispatcher, stack, currentTask, results, stats, iterations,
                   result, pc, ret, stateFile, now, cacheEnabled, h>>

SetDispatcher ==
    /\ pc \in Returned
    /\ ~dispatcher
    /\ dispatcher' = TRUE
    /\ UNCHANGED <<stack, currentTask, results, stats, iterations, result, pc,
                   ret, stateFile, cacheFiles, now, cacheEnabled, h>>

\* the clock advances before an iteration reads it; only the cache reads it,
\* and only as the age of an entry, so time starts with the first entry
Tick ==
    /\ pc = "dispatch"
    /\ cacheEnabled
    /\ DOMAIN cacheFiles # {}
    /\ now < MaxTime
    /\ now' = now + 1
    /\ UNCHANGED <<dispatcher, stack, currentTask, results, stats, iterations,
                   result, pc, ret, stateFile, cacheFiles, cacheEnabled, h>>

(***************************************************************************)
(* orchestrator.go: AnalyzeDocument up to the loop                         *)
(***************************************************************************)
\* AnalyzeDocument that restores the snapshot before it looks at the dispatcher
AnalyzeDocument_LoadsFirst(documentPath, query) ==
    /\ pc \in Returned
    /\ dispatcher => h.runs < MaxRuns
    /\ LET loaded == IF Restorable THEN LoadState(stateFile[1])
                     ELSE [stack |-> stack, currentTask |-> currentTask,
                           results |-> results, stats |-> ZeroStats]
       IN
       /\ stack' = loaded.stack
       /\ results' = loaded.results
       /\ stats' = loaded.stats
       /\ currentTask' = IF loaded.currentTask.AgentType = ""
                         THEN RootTask(documentPath, query)
                         ELSE loaded.currentTask
    /\ IF ~dispatcher THEN
          /\ pc' = "failed"
          /\ ret' = [val |-> Nil, err |-> ErrNoDispatcher]
          /\ UNCHANGED <<iterations, result, h>>
       ELSE
          /\ h' = [NoHistory EXCEPT
                     !.runs = h.runs + 1,
                     !.total = h.total,
                     !.entered = TRUE,
                     !.first = ~h.entered,
                     !.fresh = ~Restorable,
                     !.args = [documentPath |-> documentPath, query |-> query],
                     !.loaded = IF Restorable THEN DecodeStats(stateFile[1].stats)
                                ELSE ZeroStats,
                     !.memo = /\ cacheEnabled
                              /\ GenerateCacheKey(RootTask(documentPath, query))
                                     \in DOMAIN cacheFiles]
          /\ iterations' = 0
          /\ result' = Nil
          /\ ret' = NoReturn
          /\ pc' = "check"
    /\ UNCHANGED <<dispatcher, stateFile, cacheFiles, now, cacheEnabled>>

\* AnalyzeDocument that resets the stats after it restored the snapshot
AnalyzeDocument_ResetsAfterLoad(documentPath, query) ==
    /\ pc \in Returned
    /\ IF ~dispatcher THEN
          /\ pc' = "failed"
          /\ ret' = [val |-> Nil, err |-> ErrNoDispatcher]
          /\ UNCHANGED <<stack, currentTask, results, stats, iterations, result, h>>
       ELSE
          /\ h.runs < MaxRuns
          /\ LET loaded == IF Restorable THEN LoadState(stateFile[1])
                           ELSE [stack |-> stack, currentTask |-> currentTask,
                                 results |-> results, stats |-> ZeroStats]
             IN
             /\ stack' = loaded.stack
             /\ results' = loaded.results
             /\ stats' = ZeroStats
             /\ currentTask' = IF loaded.currentTask.AgentType = ""
                               THEN RootTask(documentPath, query)
                               ELSE loaded.currentTask
             /\ h' = [NoHistory EXCEPT
                        !.runs = h.runs + 1,
                        !.total = h.total,
                        !.entered = TRUE,
                        !.first = ~h.entered,
                        !.fresh = ~Restorable,
                        !.args = [documentPath |-> documentPath, query |-> query],
                        !.loaded = IF Restorable THEN DecodeStats(stateFile[1].stats)
                                   ELSE ZeroStats,
                        !.memo = /\ cacheEnabled
                                 /\ GenerateCacheKey(RootTask(documentPath, query))
                                        \in DOMAIN cacheFiles]
          /\ iterations' = 0
          /\ result' = Nil
          /\ ret' = NoReturn
          /\ pc' = "check"
    /\ UNCHANGED <<dispatcher, stateFile, cacheFiles, now, cacheEnabled>>

AnalyzeDocument(documentPath, query) ==
    /\ pc \in Returned
    /\ IF ~dispatcher THEN
          /\ pc' = "failed"
          /\ ret' = [val |-> Nil, err |-> ErrNoDispatcher]
          /\ UNCHANGED <<stack, currentTask, results, stats, iterations, result, h>>
       ELSE
          /\ h.runs < MaxRuns
          /\ LET loaded == IF Restorable THEN LoadState(stateFile[1])
                           ELSE [stack |-> stack, currentTask |-> currentTask,
                                 results |-> results, stats |-> ZeroStats]
             IN
             /\ stack' = loaded.stack
             /\ results' = loaded.results
             /\ stats' = loaded.stats
             /\ currentTask' = IF loaded.currentTask.AgentType = ""
                               THEN RootTask(documentPath, query)
                               ELSE loaded.currentTask
             /\ h' = [NoHistory EXCEPT
                        !.runs = h.runs + 1,
                        !.total = h.total,
                        !.entered = TRUE,
                        !.first = ~h.entered,
                        !.fresh = ~Restorable,
                        !.args = [documentPath |-> documentPath, query |-> query],
                        !.loaded = IF Restorable THEN DecodeStats(stateFile[1].stats)
                                   ELSE ZeroStats,
                        !.memo = /\ cacheEnabled
                                 /\ GenerateCacheKey(RootTask(documentPath, query))
                                        \in DOMAIN cacheFiles]
          /\ iterations' = 0
          /\ result' = Nil
          /\ ret' = NoReturn
          /\ pc' = "check"
    /\ UNCHANGED <<dispatcher, stateFile, cacheFiles, now, cacheEnabled>>

(***************************************************************************)
(* orchestrator.go: the trampoline loop, one iteration in three steps      *)
(***************************************************************************)
\* the head of the loop that tracks the depth before it tests it
SafetyChecks_TracksFirst ==
    /\ pc = "check"
    /\ iterations' = iterations + 1
    /\ stats' = IF currentTask.Depth > stats.MaxDepthReached
                THEN [stats EXCEPT !.MaxDepthReached = currentTask.Depth]
                ELSE stats
    /\ IF currentTask.Depth > MaxRecursionDepth THEN
          /\ pc' = "failed"
          /\ ret' = [val |-> Nil, err |-> ErrMaxDepthExceeded]
       ELSE IF iterations + 1 > MaxIterations THEN
          /\ pc' = "failed"
          /\ ret' = [val |-> Nil, err |-> ErrMaxIterationsExceeded]
       ELSE
          /\ pc' = "dispatch"
          /\ UNCHANGED ret
    /\ UNCHANGED <<dispatcher, stack, currentTask, results, result, stateFile,
                   cacheFiles, now, cacheEnabled, h>>

\* the head of the loop without the test of the iteration counter
SafetyChecks_NoIterationLimit ==
    /\ pc = "check"
    /\ iterations' = iterations + 1
    /\ IF currentTask.Depth > MaxRecursionDepth THEN
          /\ pc' = "failed"
          /\ ret' = [val |-> Nil, err |-> ErrMaxDepthExceeded]
          /\ UNCHANGED stats
       ELSE
          /\ pc' = "dispatch"
          /\ stats' = IF currentTask.Depth > stats.MaxDepthReached
                      THEN [stats EXCEPT !.MaxDepthReached = currentTask.Depth]
                      ELSE stats
          /\ UNCHANGED ret
    /\ UNCHANGED <<dispatcher, stack, currentTask, results, result, stateFile,
                   cacheFiles, now, cacheEnabled, h>>

\* the head of the loop with the iteration counter tested before the depth
SafetyChecks_IterationsFirst ==
    /\ pc = "check"
    /\ iterations' = iterations + 1
    /\ IF iterations + 1 > MaxIterations THEN
          /\ pc' = "failed"
          /\ ret' = [val |-> Nil, err |-> ErrMaxIterationsExceeded]
          /\ UNCHANGED stats
       ELSE IF currentTask.Depth > MaxRecursionDepth THEN
          /\ pc' = "failed"
          /\ ret' = [val |-> Nil, err |-> ErrMaxDepthExceeded]
          /\ UNCHANGED stats
       ELSE
          /\ pc' = "dispatch"
          /\ stats' = IF currentTask.Depth > stats.MaxDepthReached
                      THEN [stats EXCEPT !.MaxDepthReached = currentTask.Depth]
                      ELSE stats
          /\ UNCHANGED ret
    /\ UNCHANGED <<dispatcher, stack, currentTask, results, result, stateFile,
                   cacheFiles, now, cacheEnabled, h>>

\* the head of the loop: the counter, the two safety checks, MaxDepthReached
SafetyChecks ==
    /\ pc = "check"
    /\ iterations' = iterations + 1
    /\ IF currentTask.Depth > MaxRecursionDepth THEN
          /\ pc' = "failed"
          /\ ret' = [val |-> Nil, err |-> ErrMaxDepthExceeded]
          /\ UNCHANGED stats
       ELSE IF iterations + 1 > MaxIterations THEN
          /\ pc' = "failed"
          /\ ret' = [val |-> Nil, err |-> ErrMaxIterationsExceeded]
          /\ UNCHANGED stats
       ELSE
          /\ pc' = "dispatch"
          /\ stats' = IF currentTask.Depth > stats.MaxDepthReached
                      THEN [stats EXCEPT !.MaxDepthReached = currentTask.Depth]
                      ELSE stats
          /\ UNCHANGED ret
    /\ UNCHANGED <<dispatcher, stack, currentTask, results, result, stateFile,
                   cacheFiles, now, cacheEnabled, h>>

\* Dispatch that starts the next iteration after an error of the dispatcher
Dispatch_RetriesOnError ==
    /\ pc = "dispatch"
    /\ LET cached == CheckCache(cacheEnabled, cacheFiles, currentTask, now)
           seen == [h EXCEPT !.task = currentTask, !.stackLen = Len(stack)]
       IN
       /\ cacheFiles' = cached.files
       /\ IF cached.result # Nil THEN
             /\ stats' = [stats EXCEPT !.CacheHits = @ + 1]
             /\ result' = <<[Type |-> ResultTypeAnalysis, Continuation |-> Nil,
                             Analysis |-> cached.result]>>
             /\ pc' = "process"
             /\ h' = [seen EXCEPT !.hit = TRUE, !.resolved = @ + 1, !.total = @ + 1]
             /\ UNCHANGED ret
          ELSE
             \E answer \in DispatcherAnswers :
                /\ h.total >= MaxOutcomes => answer.err
                /\ IF answer.err THEN
                      /\ pc' = "check"
                      /\ UNCHANGED ret
                      /\ h' = [seen EXCEPT !.hit = FALSE, !.calls = @ + 1,
                                           !.onlyCont = FALSE, !.onlyTerm = FALSE]
                      /\ UNCHANGED <<stats, result>>
                   ELSE
                      /\ stats' = [stats EXCEPT !.TotalSubagentCalls = @ + 1]
                      /\ result' = answer.res
                      /\ pc' = "process"
                      /\ h' = [seen EXCEPT
                                 !.hit = FALSE, !.calls = @ + 1, !.resolved = @ + 1,
                                 !.total = @ + 1,
                                 !.onlyCont = @ /\ IsContinuation(answer.res[1]),
                                 !.onlyTerm = @ /\ IsAnalysis(answer.res[1])]
                      /\ UNCHANGED ret
    /\ UNCHANGED <<dispatcher, stack, currentTask, results, iterations,
                   stateFile, now, cacheEnabled>>

\* the cache check and, on a miss, the call of the dispatcher; once MaxOutcomes
\* outcomes were obtained the dispatcher only fails
Dispatch ==
    /\ pc = "dispatch"
    /\ LET cached == CheckCache(cacheEnabled, cacheFiles, currentTask, now)
           seen == [h EXCEPT !.task = currentTask, !.stackLen = Len(stack)]
       IN
       /\ cacheFiles' = cached.files
       /\ IF cached.result # Nil THEN
             /\ stats' = [stats EXCEPT !.CacheHits = @ + 1]
             /\ result' = <<[Type |-> ResultTypeAnalysis, Continuation |-> Nil,
                             Analysis |-> cached.result]>>
             /\ pc' = "process"
             /\ h' = [seen EXCEPT !.hit = TRUE, !.resolved = @ + 1, !.total = @ + 1]
             /\ UNCHANGED ret
          ELSE
             \E answer \in DispatcherAnswers :
                /\ h.total >= MaxOutcomes => answer.err
                /\ IF answer.err THEN
                      /\ pc' = "failed"
                      /\ ret' = [val |-> Nil, err |-> ErrDispatchFailed,
                                 wraps |-> DispatcherError]
                      /\ h' = [seen EXCEPT !.hit = FALSE, !.calls = @ + 1,
                                           !.onlyCont = FALSE, !.onlyTerm = FALSE]
                      /\ UNCHANGED <<stats, result>>
                   ELSE
                      /\ stats' = [stats EXCEPT !.TotalSubagentCalls = @ + 1]
                      /\ result' = answer.res
                      /\ pc' = "process"
                      /\ h' = [seen EXCEPT
                                 !.hit = FALSE, !.calls = @ + 1, !.resolved = @ + 1,
                                 !.total = @ + 1,
                                 !.onlyCont = @ /\ IsContinuation(answer.res[1]),
                                 !.onlyTerm = @ /\ IsAnalysis(answer.res[1])]
                      /\ UNCHANGED ret
    /\ UNCHANGED <<dispatcher, stack, currentTask, results, iterations,
                   stateFile, now, cacheEnabled>>

\* the dispatcher returns (nil, nil): TotalSubagentCalls is counted and
\* processResult dereferences the nil *SubagentResult, a run-time panic that
\* nothing recovers; the process is gone and only a new one can follow
DispatchNoOutcome ==
    /\ pc = "dispatch"
    /\ h.total < MaxOutcomes
    /\ LET cached == CheckCache(cacheEnabled, cacheFiles, currentTask, now) IN
       /\ cached.result = Nil
       /\ cacheFiles' = cached.files
    /\ stats' = [stats EXCEPT !.TotalSubagentCalls = @ + 1]
    /\ result' = Nil
    /\ pc' = "panic"
    /\ h' = [h EXCEPT !.task = currentTask, !.stackLen = Len(stack), !.hit = FALSE,
                      !.calls = @ + 1, !.onlyCont = FALSE, !.onlyTerm = FALSE]
    /\ UNCHANGED <<dispatcher, stack, currentTask, results, iterations, ret,
                   stateFile, now, cacheEnabled>>

\* the end of an iteration without the ClearState on completion
ProcessResult_NoClearState ==
    /\ pc = "process"
    /\ LET p == processResult(result[1]) IN
       /\ stack' = p.stack
       /\ currentTask' = p.currentTask
       /\ results' = p.results
       /\ stats' = p.stats
       /\ \E wrote \in (IF cacheEnabled /\ IsAnalysis(result[1])
                       THEN BOOLEAN ELSE {TRUE}) :
             /\ cacheFiles' = IF wrote THEN p.cacheFiles ELSE cacheFiles
             /\ IF p.err # ErrNone THEN
                   /\ pc' = "failed"
                   /\ ret' = [val |-> Nil, err |-> p.err]
                   /\ UNCHANGED <<stateFile, h>>
                ELSE IF Len(p.stack) = 0 /\ IsAnalysis(result[1]) THEN
                   /\ stateFile' = stateFile
                   /\ pc' = "done"
                   /\ ret' = [val |-> result[1].Analysis, err |-> ErrNone]
                   /\ h' = [h EXCEPT !.stored = wrote]
                ELSE
                   \E written \in BOOLEAN :
                      /\ stateFile' = IF written
                                      THEN <<SaveState(p.stack, p.currentTask, p.results, p.stats)>>
                                      ELSE stateFile
                      /\ h' = [h EXCEPT !.saved = written, !.stored = wrote,
                                         !.task = ZeroTask, !.stackLen = 0,
                                         !.hit = FALSE]
                      /\ pc' = "check"
                      /\ UNCHANGED ret
    /\ UNCHANGED <<dispatcher, iterations, result, now, cacheEnabled>>

\* the end of an iteration that does not count the tokens of a cached result
ProcessResult_HitNotCounted ==
    /\ pc = "process"
    /\ LET p == processResult(result[1]) IN
       /\ stack' = p.stack
       /\ currentTask' = p.currentTask
       /\ results' = p.results
       /\ stats' = IF h.hit THEN [p.stats EXCEPT !.TotalTokens = stats.TotalTokens]
                   ELSE p.stats
       /\ \E wrote \in (IF cacheEnabled /\ IsAnalysis(result[1])
                       THEN BOOLEAN ELSE {TRUE}) :
             /\ cacheFiles' = IF wrote THEN p.cacheFiles ELSE cacheFiles
             /\ IF p.err # ErrNone THEN
                   /\ pc' = "failed"
                   /\ ret' = [val |-> Nil, err |-> p.err]
                   /\ UNCHANGED <<stateFile, h>>
                ELSE IF Len(p.stack) = 0 /\ IsAnalysis(result[1]) THEN
                   /\ stateFile' = Nil
                   /\ pc' = "done"
                   /\ ret' = [val |-> result[1].Analysis, err |-> ErrNone]
                   /\ h' = [h EXCEPT !.stored = wrote]
                ELSE
                   \E written \in BOOLEAN :
                      /\ stateFile' = IF written
                                      THEN <<SaveState(p.stack, p.currentTask, p.results, p.stats)>>
                                      ELSE stateFile
                      /\ h' = [h EXCEPT !.saved = written, !.stored = wrote,
                                         !.task = ZeroTask, !.stackLen = 0,
                                         !.hit = FALSE]
                      /\ pc' = "check"
                      /\ UNCHANGED ret
    /\ UNCHANGED <<dispatcher, iterations, result, now, cacheEnabled>>

\* ProcessResult that returns the error of SaveState
ProcessResult_AbortsOnSaveError ==
    /\ pc = "process"
    /\ LET p == processResult(result[1]) IN
       /\ stack' = p.stack
       /\ currentTask' = p.currentTask
       /\ results' = p.results
       /\ stats' = p.stats
       /\ \E wrote \in (IF cacheEnabled /\ IsAnalysis(result[1])
                       THEN BOOLEAN ELSE {TRUE}) :
             /\ cacheFiles' = IF wrote THEN p.cacheFiles ELSE cacheFiles
             /\ IF p.err # ErrNone THEN
                   /\ pc' = "failed"
                   /\ ret' = [val |-> Nil, err |-> p.err]
                   /\ UNCHANGED <<stateFile, h>>
                ELSE IF Len(p.stack) = 0 /\ IsAnalysis(result[1]) THEN
                   /\ stateFile' = Nil
                   /\ pc' = "done"
                   /\ ret' = [val |-> result[1].Analysis, err |-> ErrNone]
                   /\ h' = [h EXCEPT !.stored = wrote]
                ELSE
                   \E written \in BOOLEAN :
                      /\ stateFile' = IF written
                                      THEN <<SaveState(p.stack, p.currentTask, p.results, p.stats)>>
                                      ELSE stateFile
                      /\ h' = [h EXCEPT !.saved = written, !.stored = wrote,
                                         !.task = ZeroTask, !.stackLen = 0,
                                         !.hit = FALSE]
                      /\ pc' = IF written THEN "check" ELSE "failed"
                      /\ ret' = IF written THEN ret
                                 ELSE [val |-> Nil, err |-> "failed to save state"]
    /\ UNCHANGED <<dispatcher, iterations, result, now, cacheEnabled>>

\* processResult (its StoreCache may fail to write: a warning only), the
\* completion test, and ClearState or SaveState
ProcessResult ==
    /\ pc = "process"
    /\ LET p == processResult(result[1]) IN
       /\ stack' = p.stack
       /\ currentTask' = p.currentTask
       /\ results' = p.results
       /\ stats' = p.stats
       /\ \E wrote \in (IF cacheEnabled /\ IsAnalysis(result[1])
                       THEN BOOLEAN ELSE {TRUE}) :
             /\ cacheFiles' = IF wrote THEN p.cacheFiles ELSE cacheFiles
             /\ IF p.err # ErrNone THEN
                   /\ pc' = "failed"
                   /\ ret' = [val |-> Nil, err |-> p.err]
                   /\ UNCHANGED <<stateFile, h>>
                ELSE IF Len(p.stack) = 0 /\ IsAnalysis(result[1]) THEN
                   /\ stateFile' = Nil
                   /\ pc' = "done"
                   /\ ret' = [val |-> result[1].Analysis, err |-> ErrNone]
                   /\ h' = [h EXCEPT !.stored = wrote]
                ELSE
                   \E written \in BOOLEAN :
                      /\ stateFile' = IF written
                                      THEN <<SaveState(p.stack, p.currentTask, p.results, p.stats)>>
                                      ELSE stateFile
                      /\ h' = [h EXCEPT !.saved = written, !.stored = wrote,
                                         !.task = ZeroTask, !.stackLen = 0,
                                         !.hit = FALSE]
                      /\ pc' = "check"
                      /\ UNCHANGED ret
    /\ UNCHANGED <<dispatcher, iterations, result, now, cacheEnabled>>

Next ==
    \/ New
    \/ CorruptState
    \/ CorruptCache
    \/ SetDispatcher
    \/ Tick
    \/ \E documentPath \in Paths, query \in Queries : AnalyzeDocument(documentPath, query)
    \/ SafetyChecks
    \/ Dispatch
    \/ DispatchNoOutcome
    \/ ProcessResult

Spec == Init /\ [][Next]_vars

\* the orchestrator of one process while no cache file expires, with a
\* dispatcher that returns an outcome or an error
NextLive ==
    \/ SetDispatcher
    \/ \E documentPath \in Paths, query \in Queries : AnalyzeDocument(documentPath, query)
    \/ SafetyChecks
    \/ Dispatch
    \/ ProcessResult

\* the loop is not suspended, and every call of the dispatcher returns
LiveSpec ==
    /\ Init /\ [][NextLive]_vars
    /\ WF_vars(SafetyChecks) /\ WF_vars(Dispatch) /\ WF_vars(ProcessResult)

(***************************************************************************)
(* Properties                                                              *)
(***************************************************************************)
\* the invocation returned an analysis result
Done == pc = "done"

\* the invocation returned an error from inside the loop
Failed == pc = "failed" /\ ret.err # ErrNoDispatcher

\* C1: AnalyzeDocument returns a result only in an iteration that dispatched the
\* root task (depth 0, dispatched with an empty stack); the value it returns is
\* never the result of a child task.
C1_ReturnsRootResult ==
    Done => h.task.Depth = 0 /\ h.stackLen = 0

\* C2: when the root task asked for a child "A", the result AnalyzeDocument
\* returns comes from a dispatch of the root task made after the child's result
\* was injected into its ChildResults["A"]; the stack is empty at the end.
C2_RootDispatchedAfterInjection ==
    (Done /\ h.fresh /\ h.first /\ "A" \in DOMAIN currentTask.ChildResults)
        => /\ Len(stack) = 0
           /\ h.task.Depth = 0
           /\ "A" \in DOMAIN h.task.ChildResults

\* C3: the dispatcher is never called on a task deeper than MaxRecursionDepth,
\* and a fresh invocation whose dispatcher only answers with continuations ends
\* with ErrMaxDepthExceeded, at depth MaxRecursionDepth + 1, after exactly
\* MaxRecursionDepth + 1 dispatcher calls.
C3_DepthBound ==
    /\ (pc = "process" /\ ~h.hit) => h.task.Depth <= MaxRecursionDepth
    /\ ((Done \/ Failed) /\ h.fresh /\ h.onlyCont)
        => /\ ret.err = ErrMaxDepthExceeded
           /\ currentTask.Depth = MaxRecursionDepth + 1
           /\ h.calls = MaxRecursionDepth + 1

\* C4: a fresh invocation with no cache file for its root task, whose dispatcher
\* only answers with analysis results, returns the result after exactly one
\* dispatcher call, with an empty stack, TotalSubagentCalls = 1 and TotalTokens
\* equal to the TokenCount of the result.
C4_ImmediateTermination ==
    ((Done \/ Failed) /\ h.fresh /\ ~h.memo /\ h.onlyTerm)
        => /\ Done
           /\ h.calls = 1
           /\ Len(stack) = 0
           /\ stats.TotalSubagentCalls = 1
           /\ stats.TotalTokens = ret.val[1].TokenCount

\* an unexpired cache file exists for the current task
CacheHolds ==
    /\ cacheEnabled
    /\ GenerateCacheKey(currentTask) \in DOMAIN cacheFiles
    /\ Unmarshals(cacheFiles[GenerateCacheKey(currentTask)])
    /\ ~Expired(cacheFiles[GenerateCacheKey(currentTask)], now)

\* C5: with the cache enabled, an iteration that finds an unexpired cache file
\* for the current task does not call the dispatcher, adds one to CacheHits,
\* leaves TotalSubagentCalls alone and hands the cached result on as an analysis
\* result; a fresh invocation whose root task is answered from the cache returns
\* that result at once, with no dispatcher call and CacheHits = 1.
C5_CacheHitSuppressesDispatch ==
    /\ [][(pc = "dispatch" /\ pc' # "dispatch" /\ CacheHolds)
            => /\ pc' = "process"
               /\ h'.calls = h.calls
               /\ stats'.CacheHits = stats.CacheHits + 1
               /\ stats'.TotalSubagentCalls = stats.TotalSubagentCalls
               /\ IsAnalysis(result'[1])
               /\ result'[1].Analysis[1]
                    = DecodeAnalysis(cacheFiles[GenerateCacheKey(currentTask)].result)]_vars
    /\ [][(pc = "process" /\ h.fresh /\ h.hit /\ h.resolved = 1 /\ h.stackLen = 0)
            => /\ pc' = "done"
               /\ ret'.val = result[1].Analysis
               /\ h'.calls = 0
               /\ stats'.TotalSubagentCalls = 0
               /\ stats'.CacheHits = 1]_vars

\* the second of two invocations for the same root task returned the result the
\* first one stored, without a dispatcher call
C5_Witness ==
    /\ Done /\ h.runs = 2 /\ h.fresh /\ h.hit
    /\ h.task = RootTask(h.args.documentPath, h.args.query)
    /\ h.calls = 0 /\ stats.CacheHits = 1

Memory ==
    [stack |-> stack, currentTask |-> currentTask, results |-> results, stats |-> stats]

\* C7: after an iteration that does not end the invocation and whose SaveState
\* succeeded, the snapshot file holds the stack, current task, results and stats
\* the orchestrator has in memory.
C7_SnapshotMatchesMemory ==
    (pc = "check" /\ h.saved)
        => stateFile # Nil /\ LoadState(stateFile[1]) = Memory

\* a snapshot was saved with a pending parent and a recorded child result
C7_Witness ==
    /\ pc = "check" /\ h.saved
    /\ Len(stack) >= 1
    /\ DOMAIN results # {}
    /\ stats.TotalSubagentCalls >= 1

\* C8: an invocation that finds a snapshot continues from exactly the stack,
\* current task, results and stats of the snapshot; it builds no root task from
\* its arguments.
C8_ResumesFromSnapshot ==
    (pc = "check" /\ iterations = 0 /\ ~h.fresh)
        => stateFile # Nil /\ LoadState(stateFile[1]) = Memory

\* C9: in an invocation that resumed a snapshot every counter of the stats is at
\* least what the snapshot recorded, and the calls and cache hits are those of
\* the snapshot plus the outcomes obtained since (as long as the process lives).
C9_ResumeKeepsStats ==
    (~h.fresh /\ pc # "panic")
        => /\ stats.TotalSubagentCalls >= h.loaded.TotalSubagentCalls
           /\ stats.TotalTokens >= h.loaded.TotalTokens
           /\ stats.TotalCostUSD >= h.loaded.TotalCostUSD
           /\ stats.CacheHits >= h.loaded.CacheHits
           /\ stats.MaxDepthReached >= h.loaded.MaxDepthReached
           /\ stats.TotalSubagentCalls + stats.CacheHits
                = h.loaded.TotalSubagentCalls + h.loaded.CacheHits + h.resolved

\* a new orchestrator resumed a snapshot taken after a dispatcher call and
\* finished the analysis
C9_Witness ==
    /\ Done /\ ~h.fresh /\ h.first
    /\ h.loaded.TotalSubagentCalls >= 1
    /\ stats.TotalSubagentCalls > h.loaded.TotalSubagentCalls

\* C10: every invocation that finds no snapshot starts the loop with the root
\* task built from its own arguments, an empty stack and zeroed stats, also when
\* the orchestrator has run before.
C10_FreshStart ==
    (pc = "check" /\ iterations = 0 /\ h.fresh)
        => /\ currentTask = RootTask(h.args.documentPath, h.args.query)
           /\ stack = <<>>
           /\ stats = ZeroStats

FirstDispatch ==
    \/ pc = "process" /\ h.resolved = 1
    \/ pc = "failed" /\ ret.err = ErrDispatchFailed /\ h.resolved = 0

\* C12: when a process ends inside the loop after a snapshot was written and a
\* new orchestrator resumes, the first task it dispatches is the current task
\* of the snapshot, on the stack of the snapshot; no task whose outcome the
\* snapshot already holds (a parent on the saved stack) is dispatched in its place.
C12_CrashRecovery ==
    (FirstDispatch /\ ~h.fresh /\ h.first)
        => /\ stateFile # Nil
           /\ h.task = DecodeTask(stateFile[1].current_task)
           /\ h.stackLen = Len(stateFile[1].stack)

(***************************************************************************)
(* cache.go on its own: StoreCache and CheckCache called for two tasks.    *)
(* stack holds the two tasks, currentTask the task of the latest call,     *)
(* result what the latest call handed over or returned (a *AnalysisResult),*)
(* h.op the latest call, h.key the key GenerateCacheKey gave it, h.other   *)
(* whether a CheckCache directly follows a StoreCache for the other task.  *)
(***************************************************************************)
Roles == {"Explorer", "Worker"}

Descriptions == {"q1", "sub"}

Contexts ==
    { EmptyMap, [query |-> "q1"], [document_path |-> "doc", query |-> "q1"] }

Tasks ==
    [AgentType : Roles, TaskDescription : Descriptions, Context : Contexts,
     Depth : {0, 1}, ReturnTo : {Nil, <<"A">>},
     ChildResults : {EmptyMap, [A |-> [Content |-> "r1", TokenCount |-> 1, CostUSD |-> 3]]}]

\* the tasks a fresh parent looks like: depth 0, no return label, no child results
PlainTasks ==
    {t \in Tasks : t.Depth = 0 /\ t.ReturnTo = Nil /\ t.ChildResults = EmptyMap}

\* t and u differ in at most one field
OneFieldApart(t, u) ==
    Cardinality({f \in DOMAIN t : t[f] # u[f]}) <= 1

CacheInit ==
    /\ dispatcher = FALSE
    /\ stack \in {p \in PlainTasks \X Tasks : OneFieldApart(p[1], p[2])}
    /\ currentTask = ZeroTask
    /\ results = EmptyMap
    /\ stats = ZeroStats
    /\ iterations = 0
    /\ result = Nil
    /\ pc = "cache"
    /\ ret = NoReturn
    /\ stateFile = Nil
    /\ cacheFiles = <<>>
    /\ now = 0
    /\ cacheEnabled \in BOOLEAN
    /\ h = [op |-> "none", key |-> "", other |-> FALSE]

\* o.StoreCache(&task, a)
CacheStore(i, a) ==
    /\ pc = "cache"
    /\ cacheFiles' = StoreCache(cacheEnabled, cacheFiles, stack[i], a, now)
    /\ currentTask' = stack[i]
    /\ result' = <<a>>
    /\ h' = [op |-> "store", key |-> GenerateCacheKey(stack[i]), other |-> FALSE]
    /\ UNCHANGED <<dispatcher, stack, results, stats, iterations, pc, ret,
                   stateFile, now, cacheEnabled>>

\* o.CheckCache(&task)
CacheLookup(i) ==
    /\ pc = "cache"
    /\ LET cached == CheckCache(cacheEnabled, cacheFiles, stack[i], now) IN
       /\ cacheFiles' = cached.files
       /\ result' = cached.result
    /\ currentTask' = stack[i]
    /\ h' = [op |-> "lookup", key |-> GenerateCacheKey(stack[i]),
             other |-> h.op = "store" /\ currentTask # stack[i]]
    /\ UNCHANGED <<dispatcher, stack, results, stats, iterations, pc, ret,
                   stateFile, now, cacheEnabled>>

\* the file of a task is damaged between two calls
CacheDamage(i) ==
    /\ pc = "cache"
    /\ GenerateCacheKey(stack[i]) \in DOMAIN cacheFiles
    /\ Unmarshals(cacheFiles[GenerateCacheKey(stack[i])])
    /\ cacheFiles' = [cacheFiles EXCEPT ![GenerateCacheKey(stack[i])] = Malformed]
    /\ currentTask' = stack[i]
    /\ result' = Nil
    /\ h' = [op |-> "damage", key |-> GenerateCacheKey(stack[i]), other |-> FALSE]
    /\ UNCHANGED <<dispatcher, stack, results, stats, iterations, pc, ret,
                   stateFile, now, cacheEnabled>>

\* time passes between two calls
CacheTick ==
    /\ pc = "cache"
    /\ now < MaxTime
    /\ now' = now + 1
    /\ UNCHANGED <<dispatcher, stack, currentTask, results, stats, iterations,
                   result, pc, ret, stateFile, cacheFiles, cacheEnabled, h>>

CacheNext ==
    \/ \E i \in 1..2, a \in AnalysisResults : CacheStore(i, a)
    \/ \E i \in 1..2 : CacheLookup(i)
    \/ \E i \in 1..2 : CacheDamage(i)
    \/ CacheTick

CacheSpec == CacheInit /\ [][CacheNext]_vars

\* t and u have the same agent type, description and context
SameRoleDescContext(t, u) ==
    /\ t.AgentType = u.AgentType
    /\ t.TaskDescription = u.TaskDescription
    /\ t.Context = u.Context

\* C13: a CheckCache for a task that has the agent type, description and
\* context of the task a StoreCache just served, whatever their depths, return
\* labels and child results, computes the same key and, with the cache enabled
\* and the entry not expired, returns the result the other stored.  (A Go map
\* has no insertion order and json.Marshal writes its keys sorted: a context is
\* a function here.)
C13_KeyIgnoresPath ==
    [][(h.op = "store" /\ h'.op = "lookup"
            /\ SameRoleDescContext(currentTask, currentTask'))
        => /\ h'.key = h.key
           /\ (cacheEnabled /\ ~Expired(cacheFiles[h.key], now))
                => result' = result]_vars

\* a parent that holds child results got the entry a task without them stored
C13_Witness ==
    /\ h.op = "lookup" /\ h.other
    /\ result # Nil
    /\ SameRoleDescContext(stack[1], stack[2])
    /\ currentTask.ChildResults # EmptyMap

\* C14: two tasks with the same description and context and different agent
\* types get different keys (the strings GenerateCacheKey hashes differ).
C14_KeyDependsOnRole ==
    [][(h.op # "none" /\ h'.op # "none"
            /\ currentTask.TaskDescription = currentTask'.TaskDescription
            /\ currentTask.Context = currentTask'.Context
            /\ currentTask.AgentType # currentTask'.AgentType)
        => h'.key # h.key]_vars

\* a task missed the entry that a task of another agent type, with the same
\* description and context, had just stored; the entry is still there
C14_Witness ==
    /\ h.op = "lookup" /\ h.other /\ cacheEnabled
    /\ stack[1].AgentType # stack[2].AgentType
    /\ result = Nil
    /\ Cardinality(DOMAIN cacheFiles) = 1
    /\ h.key \notin DOMAIN cacheFiles

\* C15: CheckCache returns a result exactly when a file exists for the key of
\* the task and now - timestamp <= the ttl written in it, and then it is the
\* stored result and the directory is untouched; when the file is older it is
\* removed; a CheckCache that misses is followed by misses for the same key
\* until a StoreCache.
C15_LookupHonoursTTL ==
    /\ [][(h'.op = "lookup" /\ now' = now)
            => LET key == h'.key
                   present == /\ cacheEnabled /\ key \in DOMAIN cacheFiles
                              /\ Unmarshals(cacheFiles[key])
                   fresh == now - cacheFiles[key].timestamp <= cacheFiles[key].ttl
               IN
               /\ (result' # Nil) <=> (present /\ fresh)
               /\ (present /\ fresh)
                    => /\ result' = <<DecodeAnalysis(cacheFiles[key].result)>>
                       /\ cacheFiles' = cacheFiles
               /\ (present /\ ~fresh) => cacheFiles' = RemoveFile(cacheFiles, key)
               /\ ~present => cacheFiles' = cacheFiles]_vars
    /\ [][(h.op = "lookup" /\ result = Nil /\ h'.op = "lookup" /\ h'.key = h.key)
            => result' = Nil]_vars

\* an entry was stored, time passed, and the CheckCache that followed for the
\* same key missed and removed the file
C15_Witness ==
    /\ h.op = "lookup" /\ h.other /\ cacheEnabled
    /\ SameRoleDescContext(stack[1], stack[2])
    /\ result = Nil
    /\ cacheFiles = <<>>

\* C16: the step in which the dispatcher returns an error ends the invocation
\* with the "subagent dispatch failed" error that wraps the dispatcher's error;
\* the dispatcher was called once in it and is not called again before a new
\* invocation; the stack, the current task and the results are as before the
\* call, and no cache file was written or changed.
C16_DispatchErrorIsFatal ==
    /\ [][(pc = "dispatch" /\ h'.calls = h.calls + 1 /\ pc' \notin {"process", "panic"})
            => /\ pc' = "failed"
               /\ ret' = [val |-> Nil, err |-> ErrDispatchFailed,
                          wraps |-> DispatcherError]
               /\ stack' = stack /\ currentTask' = currentTask /\ results' = results
               /\ stateFile' = stateFile
               /\ \A k \in DOMAIN cacheFiles' :
                     k \in DOMAIN cacheFiles /\ cacheFiles'[k] = cacheFiles[k]]_vars
    /\ [][(pc = "failed" /\ pc' = "failed") => h'.calls = h.calls]_vars

\* the dispatcher failed on a parent task that had already received a child
\* result, with a pending stack and entries in the cache
C16_Witness ==
    /\ pc = "failed" /\ ret.err = ErrDispatchFailed
    /\ Len(stack) >= 1
    /\ DOMAIN results # {}
    /\ DOMAIN cacheFiles # {}

\* C17: one invocation obtains at most MaxIterations outcomes, dispatcher
\* answers and cache hits together; the iteration that follows the last of them
\* fails, with ErrMaxDepthExceeded when the current task is deeper than
\* MaxRecursionDepth (that test comes first) and with ErrMaxIterationsExceeded
\* otherwise; ErrMaxIterationsExceeded is returned in no other case.
C17_IterationLimit ==
    /\ [](h.resolved <= MaxIterations /\ h.resolved <= iterations)
    /\ [][(pc = "check" /\ h.resolved = MaxIterations /\ pc' \notin {"check", "idle"})
            => /\ pc' = "failed"
               /\ ret'.err = IF currentTask.Depth > MaxRecursionDepth
                             THEN ErrMaxDepthExceeded
                             ELSE ErrMaxIterationsExceeded]_vars
    /\ []((pc = "failed" /\ ret.err = ErrMaxIterationsExceeded)
            => /\ h.resolved = MaxIterations
               /\ currentTask.Depth <= MaxRecursionDepth)

\* both limits were passed in the same iteration and the depth was reported
C17_Witness ==
    /\ pc = "failed" /\ ret.err = ErrMaxDepthExceeded
    /\ h.resolved = MaxIterations
    /\ iterations = MaxIterations + 1

\* C18: AnalyzeDocument on an orchestrator without a dispatcher returns
\* ErrNoDispatcher at once: no iteration starts, no dispatcher call is made, the
\* snapshot file is neither read into memory nor written nor removed, and the
\* stack, current task, results and stats stay as they were.
C18_NoDispatcher ==
    /\ [][(pc \in Returned /\ ~dispatcher /\ ~dispatcher' /\ pc' # "idle")
            => /\ pc' = "failed"
               /\ ret' = [val |-> Nil, err |-> ErrNoDispatcher]
               /\ stack' = stack /\ currentTask' = currentTask
               /\ results' = results /\ stats' = stats
               /\ stateFile' = stateFile /\ cacheFiles' = cacheFiles
               /\ h'.calls = h.calls /\ h'.resolved = h.resolved]_vars
    /\ [](pc \in {"check", "dispatch", "process"} => dispatcher)

\* a new orchestrator without a dispatcher was asked to analyze while a
\* snapshot of an earlier process was on disk, and did not restore it
C18_Witness ==
    /\ pc = "failed" /\ ret.err = ErrNoDispatcher
    /\ ~dispatcher
    /\ stateFile # Nil
    /\ stack = <<>> /\ currentTask = ZeroTask

\* r is neither a populated continuation nor a populated analysis result
Improper(r) == ~IsContinuation(r) /\ ~IsAnalysis(r)

\* an outcome that is present but improper fails the invocation with the
\* "unknown result type" error and leaves stack, current task and cache alone
PresentOutcomesFail ==
    [][(pc = "process" /\ Improper(result[1]))
        => /\ pc' = "failed"
           /\ ret' = [val |-> Nil, err |-> ErrUnknownResultType]
           /\ stack' = stack /\ currentTask' = currentTask
           /\ cacheFiles' = cacheFiles]_vars

\* C19: when the dispatcher returns, without an error, something that is neither
\* a populated continuation nor a populated analysis result (an unknown type, a
\* type without its payload, or nothing at all), AnalyzeDocument returns the
\* "unknown result type" error and the stack, the current task and the cache
\* files are as before; in particular the process does not panic.
C19_UnknownOutcomeFails ==
    /\ [](pc # "panic")
    /\ PresentOutcomesFail

\* C20: an invocation that finds no snapshot file, or one that does not parse,
\* returns no error for it and starts the loop as a fresh start: the current
\* task is the root task built from its arguments, at depth 0, and the stack is
\* empty; nothing of a malformed file reaches stack, current task or results.
C20_MissingOrMalformedIsFresh ==
    (pc = "check" /\ iterations = 0 /\ (stateFile = Nil \/ ~Unmarshals(stateFile[1])))
        => /\ ret.err = ErrNone
           /\ currentTask = RootTask(h.args.documentPath, h.args.query)
           /\ currentTask.Depth = 0
           /\ stack = <<>>

(***************************************************************************)
(* C21                                                                     *)
(***************************************************************************)
\* the cache file of the current task exists and json.Unmarshal rejects it
Unreadable ==
    /\ cacheEnabled
    /\ GenerateCacheKey(currentTask) \in DOMAIN cacheFiles
    /\ ~Unmarshals(cacheFiles[GenerateCacheKey(currentTask)])

IsPath(frames) ==
    \A i \in 1..Len(frames) :
        /\ frames[i].Depth = i - 1
        /\ (frames[i].ReturnTo = Nil) <=> (i = 1)

\* C22: in every state of an invocation that restored no snapshot, the tasks of
\* the stack followed by the current task have the depths 0, 1, 2, ... in this
\* order, so the depth of the current task is the length of the stack, and only
\* the bottom one has no ReturnTo.
C22_PathInvariant ==
    (h.entered /\ h.fresh /\ pc \notin Returned \cup {"idle"})
        => IsPath(Append(stack, currentTask))

(***************************************************************************)
(* C23                                                                     *)
(***************************************************************************)
\* C23: the cache directory outlives the snapshot, the invocation and the
\* orchestrator: a step that ends an invocation (with a result or an error),
\* that removes the snapshot, or that replaces the orchestrator by a new one in
\* the same working directory removes no cache file, but for the expired file
\* of the task just looked up; and in a later invocation a task whose file is
\* within its TTL is served from the cache without a dispatcher call.
C23_CacheOutlivesRuns ==
    /\ [][(\/ pc' \in {"done", "failed", "idle"} /\ pc' # pc
           \/ stateFile # Nil /\ stateFile' = Nil)
            => \A k \in DOMAIN cacheFiles :
                  \/ k \in DOMAIN cacheFiles'
                  \/ /\ pc = "dispatch"
                     /\ k = GenerateCacheKey(currentTask)
                     /\ Unmarshals(cacheFiles[k])
                     /\ Expired(cacheFiles[k], now)]_vars
    /\ [][(pc = "dispatch" /\ pc' # "dispatch" /\ h.runs >= 2 /\ CacheHolds)
            => /\ h'.hit
               /\ stats'.CacheHits = stats.CacheHits + 1
               /\ stats'.TotalSubagentCalls = stats.TotalSubagentCalls
               /\ result'[1].Analysis = <<DecodeAnalysis(
                      cacheFiles[GenerateCacheKey(currentTask)].result)>>]_vars

\* a new orchestrator, in its first invocation, is served from the cache before
\* any dispatcher call: the entry was stored by the orchestrator before it
C23_Witness ==
    /\ pc = "process"
    /\ h.hit
    /\ h.first
    /\ h.runs = 2
    /\ stats.TotalSubagentCalls = 0
    /\ stats.CacheHits = 1

(***************************************************************************)
(* Two orchestrators on one working directory, each in a process of its    *)
(* own that makes one AnalyzeDocument call, as cmd/rlm does.  The fields   *)
(* of the orchestrator are functions of the controller; the files are      *)
(* shared.  An iteration of the loop is one step: between its file         *)
(* operations it touches the memory of its own process only.  The cache is *)
(* disabled and writes to the working directory succeed.                   *)
(***************************************************************************)
Controllers == {"a", "b"}

\* the query each controller is started with
QueryOf == [a |-> "q1", b |-> "q2"]

\* what the dispatcher of a controller answers: an error, an analysis result, or
\* a continuation that names no agent type
PairAnswers ==
    {answer \in DispatcherAnswers :
        \/ answer.err
        \/ IsContinuation(answer.res[1]) /\ answer.res[1].Continuation[1].AgentType = ""
        \/ IsAnalysis(answer.res[1]) /\ answer.res[1].Analysis[1].Content = "r1"}

\* the dispatchers answer MaxOutcomes + 1 times in all, then only with an
\* error: enough for MaxRecursionDepth + 2 continuations
PairAnswersNow ==
    {answer \in PairAnswers :
        h["a"].total + h["b"].total >= MaxOutcomes + 1 => answer.err}

MemoryOf(c) ==
    [stack |-> stack[c], currentTask |-> currentTask[c],
     results |-> results[c], stats |-> stats[c]]

\* the query of the root task of a memory: the bottom of the path
RootOf(memory) ==
    IF memory.stack # <<>> THEN memory.stack[1].TaskDescription
    ELSE memory.currentTask.TaskDescription

\* New and SetDispatcher were called in both processes; h is, for each
\* controller, the number of its processes that entered the loop, the number of
\* outcomes they obtained, whether the running one restored a snapshot, and the
\* root queries of the states its processes have worked on
PairInit ==
    /\ dispatcher = [c \in Controllers |-> TRUE]
    /\ stack = [c \in Controllers |-> <<>>]
    /\ currentTask = [c \in Controllers |-> ZeroTask]
    /\ results = [c \in Controllers |-> EmptyMap]
    /\ stats = [c \in Controllers |-> ZeroStats]
    /\ iterations = [c \in Controllers |-> 0]
    /\ result = [c \in Controllers |-> Nil]
    /\ pc = [c \in Controllers |-> "idle"]
    /\ ret = [c \in Controllers |-> NoReturn]
    /\ stateFile = Nil
    /\ cacheFiles = <<>>
    /\ now = 0
    /\ cacheEnabled = FALSE
    /\ h = [c \in Controllers |->
            [runs |-> 0, total |-> 0, resumed |-> FALSE, roots |-> {}]]

\* AnalyzeDocument up to the loop
PairAnalyze(c) ==
    /\ pc[c] = "idle"
    /\ h[c].runs < MaxRuns
    /\ LET loaded == IF Restorable THEN LoadState(stateFile[1])
                     ELSE [stack |-> stack[c], currentTask |-> currentTask[c],
                           results |-> results[c], stats |-> ZeroStats]
       IN
       /\ stack' = [stack EXCEPT ![c] = loaded.stack]
       /\ results' = [results EXCEPT ![c] = loaded.results]
       /\ stats' = [stats EXCEPT ![c] = loaded.stats]
       /\ currentTask' = [currentTask EXCEPT ![c] =
                            IF loaded.currentTask.AgentType = ""
                            THEN RootTask("doc", QueryOf[c])
                            ELSE loaded.currentTask]
    /\ iterations' = [iterations EXCEPT ![c] = 0]
    /\ ret' = [ret EXCEPT ![c] = NoReturn]
    /\ pc' = [pc EXCEPT ![c] = "loop"]
    /\ h' = [h EXCEPT ![c].runs = @ + 1, ![c].resumed = Restorable]
    /\ UNCHANGED <<dispatcher, result, stateFile, cacheFiles, now, cacheEnabled>>

\* an iteration whose ClearState removes the snapshot only when it is the one
\* this controller wrote
PairIterate_ClearsOwnOnly(c) ==
    /\ pc[c] = "loop"
    /\ iterations' = [iterations EXCEPT ![c] = @ + 1]
    /\ IF currentTask[c].Depth > MaxRecursionDepth THEN
          /\ pc' = [pc EXCEPT ![c] = "failed"]
          /\ ret' = [ret EXCEPT ![c] = [val |-> Nil, err |-> ErrMaxDepthExceeded]]
          /\ UNCHANGED <<stack, currentTask, results, stats, stateFile, cacheFiles, h>>
       ELSE IF iterations[c] + 1 > MaxIterations THEN
          /\ pc' = [pc EXCEPT ![c] = "failed"]
          /\ ret' = [ret EXCEPT ![c] = [val |-> Nil, err |-> ErrMaxIterationsExceeded]]
          /\ UNCHANGED <<stack, currentTask, results, stats, stateFile, cacheFiles, h>>
       ELSE
          LET deepest == IF currentTask[c].Depth > stats[c].MaxDepthReached
                         THEN [stats[c] EXCEPT !.MaxDepthReached = currentTask[c].Depth]
                         ELSE stats[c]
              cached == CheckCache(cacheEnabled, cacheFiles, currentTask[c], now)
          IN
          \E answer \in PairAnswersNow :
             IF cached.result = Nil /\ answer.err THEN
                /\ pc' = [pc EXCEPT ![c] = "failed"]
                /\ ret' = [ret EXCEPT ![c] = [val |-> Nil, err |-> ErrDispatchFailed,
                                              wraps |-> DispatcherError]]
                /\ stats' = [stats EXCEPT ![c] = deepest]
                /\ cacheFiles' = cached.files
                /\ UNCHANGED <<stack, currentTask, results, stateFile, h>>
             ELSE
                LET outcome ==
                        IF cached.result # Nil
                        THEN [Type |-> ResultTypeAnalysis, Continuation |-> Nil,
                              Analysis |-> cached.result]
                        ELSE answer.res[1]
                    counted ==
                        IF cached.result # Nil
                        THEN [deepest EXCEPT !.CacheHits = @ + 1]
                        ELSE [deepest EXCEPT !.TotalSubagentCalls = @ + 1]
                    p == processResultOn(stack[c], currentTask[c], results[c],
                                         counted, cached.files, outcome)
                    after == [stack |-> p.stack, currentTask |-> p.currentTask,
                              results |-> p.results, stats |-> p.stats]
                IN
                /\ stack' = [stack EXCEPT ![c] = p.stack]
                /\ currentTask' = [currentTask EXCEPT ![c] = p.currentTask]
                /\ results' = [results EXCEPT ![c] = p.results]
                /\ stats' = [stats EXCEPT ![c] = p.stats]
                /\ cacheFiles' = p.cacheFiles
                /\ h' = [h EXCEPT ![c].total = @ + 1,
                                  ![c].roots = @ \cup {RootOf(MemoryOf(c)), RootOf(after)}]
                /\ IF p.err # ErrNone THEN
                      /\ pc' = [pc EXCEPT ![c] = "failed"]
                      /\ ret' = [ret EXCEPT ![c] = [val |-> Nil, err |-> p.err]]
                      /\ UNCHANGED stateFile
                   ELSE IF Len(p.stack) = 0 /\ IsAnalysis(outcome) THEN
                      /\ stateFile' =
                            IF stateFile = <<SaveState(stack[c], currentTask[c],
                                                       results[c], stats[c])>>
                            THEN Nil ELSE stateFile
                      /\ pc' = [pc EXCEPT ![c] = "done"]
                      /\ ret' = [ret EXCEPT ![c] = [val |-> outcome.Analysis,
                                                    err |-> ErrNone]]
                   ELSE
                      /\ stateFile' = <<SaveState(p.stack, p.currentTask,
                                                  p.results, p.stats)>>
                      /\ pc' = [pc EXCEPT ![c] = "loop"]
                      /\ UNCHANGED ret
    /\ UNCHANGED <<dispatcher, result, now, cacheEnabled>>

\* an iteration whose limit counts the outcomes recorded in the restored stats
PairIterate_CountsRestored(c) ==
    /\ pc[c] = "loop"
    /\ iterations' = [iterations EXCEPT ![c] = @ + 1]
    /\ IF currentTask[c].Depth > MaxRecursionDepth THEN
          /\ pc' = [pc EXCEPT ![c] = "failed"]
          /\ ret' = [ret EXCEPT ![c] = [val |-> Nil, err |-> ErrMaxDepthExceeded]]
          /\ UNCHANGED <<stack, currentTask, results, stats, stateFile, cacheFiles, h>>
       ELSE IF stats[c].TotalSubagentCalls + stats[c].CacheHits + 1 > MaxIterations THEN
          /\ pc' = [pc EXCEPT ![c] = "failed"]
          /\ ret' = [ret EXCEPT ![c] = [val |-> Nil, err |-> ErrMaxIterationsExceeded]]
          /\ UNCHANGED <<stack, currentTask, results, stats, stateFile, cacheFiles, h>>
       ELSE
          LET deepest == IF currentTask[c].Depth > stats[c].MaxDepthReached
                         THEN [stats[c] EXCEPT !.MaxDepthReached = currentTask[c].Depth]
                         ELSE stats[c]
              cached == CheckCache(cacheEnabled, cacheFiles, currentTask[c], now)
          IN
          \E answer \in PairAnswersNow :
             IF cached.result = Nil /\ answer.err THEN
                /\ pc' = [pc EXCEPT ![c] = "failed"]
                /\ ret' = [ret EXCEPT ![c] = [val |-> Nil, err |-> ErrDispatchFailed,
                                              wraps |-> DispatcherError]]
                /\ stats' = [stats EXCEPT ![c] = deepest]
                /\ cacheFiles' = cached.files
                /\ UNCHANGED <<stack, currentTask, results, stateFile, h>>
             ELSE
                LET outcome ==
                        IF cached.result # Nil
                        THEN [Type |-> ResultTypeAnalysis, Continuation |-> Nil,
                              Analysis |-> cached.result]
                        ELSE answer.res[1]
                    counted ==
                        IF cached.result # Nil
                        THEN [deepest EXCEPT !.CacheHits = @ + 1]
                        ELSE [deepest EXCEPT !.TotalSubagentCalls = @ + 1]
                    p == processResultOn(stack[c], currentTask[c], results[c],
                                         counted, cached.files, outcome)
                    after == [stack |-> p.stack, currentTask |-> p.currentTask,
                              results |-> p.results, stats |-> p.stats]
                IN
                /\ stack' = [stack EXCEPT ![c] = p.stack]
                /\ currentTask' = [currentTask EXCEPT ![c] = p.currentTask]
                /\ results' = [results EXCEPT ![c] = p.results]
                /\ stats' = [stats EXCEPT ![c] = p.stats]
                /\ cacheFiles' = p.cacheFiles
                /\ h' = [h EXCEPT ![c].total = @ + 1,
                                  ![c].roots = @ \cup {RootOf(MemoryOf(c)), RootOf(after)}]
                /\ IF p.err # ErrNone THEN
                      /\ pc' = [pc EXCEPT ![c] = "failed"]
                      /\ ret' = [ret EXCEPT ![c] = [val |-> Nil, err |-> p.err]]
                      /\ UNCHANGED stateFile
                   ELSE IF Len(p.stack) = 0 /\ IsAnalysis(outcome) THEN
                      /\ stateFile' = Nil
                      /\ pc' = [pc EXCEPT ![c] = "done"]
                      /\ ret' = [ret EXCEPT ![c] = [val |-> outcome.Analysis,
                                                    err |-> ErrNone]]
                   ELSE
                      /\ stateFile' = <<SaveState(p.stack, p.currentTask,
                                                  p.results, p.stats)>>
                      /\ pc' = [pc EXCEPT ![c] = "loop"]
                      /\ UNCHANGED ret
    /\ UNCHANGED <<dispatcher, result, now, cacheEnabled>>

\* one iteration of the loop of AnalyzeDocument: the safety checks, the outcome,
\* processResult, and ClearState on completion or SaveState
PairIterate(c) ==
    /\ pc[c] = "loop"
    /\ iterations' = [iterations EXCEPT ![c] = @ + 1]
    /\ IF currentTask[c].Depth > MaxRecursionDepth THEN
          /\ pc' = [pc EXCEPT ![c] = "failed"]
          /\ ret' = [ret EXCEPT ![c] = [val |-> Nil, err |-> ErrMaxDepthExceeded]]
          /\ UNCHANGED <<stack, currentTask, results, stats, stateFile, cacheFiles, h>>
       ELSE IF iterations[c] + 1 > MaxIterations THEN
          /\ pc' = [pc EXCEPT ![c] = "failed"]
          /\ ret' = [ret EXCEPT ![c] = [val |-> Nil, err |-> ErrMaxIterationsExceeded]]
          /\ UNCHANGED <<stack, currentTask, results, stats, stateFile, cacheFiles, h>>
       ELSE
          LET deepest == IF currentTask[c].Depth > stats[c].MaxDepthReached
                         THEN [stats[c] EXCEPT !.MaxDepthReached = currentTask[c].Depth]
                         ELSE stats[c]
              cached == CheckCache(cacheEnabled, cacheFiles, currentTask[c], now)
          IN
          \E answer \in PairAnswersNow :
             IF cached.result = Nil /\ answer.err THEN
                /\ pc' = [pc EXCEPT ![c] = "failed"]
                /\ ret' = [ret EXCEPT ![c] = [val |-> Nil, err |-> ErrDispatchFailed,
                                              wraps |-> DispatcherError]]
                /\ stats' = [stats EXCEPT ![c] = deepest]
                /\ cacheFiles' = cached.files
                /\ UNCHANGED <<stack, currentTask, results, stateFile, h>>
             ELSE
                LET outcome ==
                        IF cached.result # Nil
                        THEN [Type |-> ResultTypeAnalysis, Continuation |-> Nil,
                              Analysis |-> cached.result]
                        ELSE answer.res[1]
                    counted ==
                        IF cached.result # Nil
                        THEN [deepest EXCEPT !.CacheHits = @ + 1]
                        ELSE [deepest EXCEPT !.TotalSubagentCalls = @ + 1]
                    p == processResultOn(stack[c], currentTask[c], results[c],
                                         counted, cached.files, outcome)
                    after == [stack |-> p.stack, currentTask |-> p.currentTask,
                              results |-> p.results, stats |-> p.stats]
                IN
                /\ stack' = [stack EXCEPT ![c] = p.stack]
                /\ currentTask' = [currentTask EXCEPT ![c] = p.currentTask]
                /\ results' = [results EXCEPT ![c] = p.results]
                /\ stats' = [stats EXCEPT ![c] = p.stats]
                /\ cacheFiles' = p.cacheFiles
                /\ h' = [h EXCEPT ![c].total = @ + 1,
                                  ![c].roots = @ \cup {RootOf(MemoryOf(c)), RootOf(after)}]
                /\ IF p.err # ErrNone THEN
                      /\ pc' = [pc EXCEPT ![c] = "failed"]
                      /\ ret' = [ret EXCEPT ![c] = [val |-> Nil, err |-> p.err]]
                      /\ UNCHANGED stateFile
                   ELSE IF Len(p.stack) = 0 /\ IsAnalysis(outcome) THEN
                      /\ stateFile' = Nil
                      /\ pc' = [pc EXCEPT ![c] = "done"]
                      /\ ret' = [ret EXCEPT ![c] = [val |-> outcome.Analysis,
                                                    err |-> ErrNone]]
                   ELSE
                      /\ stateFile' = <<SaveState(p.stack, p.currentTask,
                                                  p.results, p.stats)>>
                      /\ pc' = [pc EXCEPT ![c] = "loop"]
                      /\ UNCHANGED ret
    /\ UNCHANGED <<dispatcher, result, now, cacheEnabled>>

\* the process of a controller is killed in the loop and a new one is started
\* in the same working directory: New and SetDispatcher
PairRestart(c) ==
    /\ pc[c] = "loop"
    /\ stack' = [stack EXCEPT ![c] = <<>>]
    /\ currentTask' = [currentTask EXCEPT ![c] = ZeroTask]
    /\ results' = [results EXCEPT ![c] = EmptyMap]
    /\ stats' = [stats EXCEPT ![c] = ZeroStats]
    /\ iterations' = [iterations EXCEPT ![c] = 0]
    /\ ret' = [ret EXCEPT ![c] = NoReturn]
    /\ pc' = [pc EXCEPT ![c] = "idle"]
    /\ h' = [h EXCEPT ![c].resumed = FALSE]
    /\ UNCHANGED <<dispatcher, result, stateFile, cacheFiles, now, cacheEnabled>>

PairNext ==
    \/ \E c \in Controllers : PairAnalyze(c)
    \/ \E c \in Controllers : PairIterate(c)
    \/ \E c \in Controllers : PairRestart(c)

PairSpec == PairInit /\ [][PairNext]_vars

(***************************************************************************)
(* C24                                                                     *)
(***************************************************************************)
\* C24: the snapshot file belongs to the working directory, not to a
\* controller: an iteration of a controller that goes on writes its own memory
\* over whatever the file held, an iteration that completes a run removes the
\* file whoever wrote it, and a controller that starts while the file exists
\* takes its stack, results and stats from it whoever wrote it.
C24_SnapshotIsShared ==
    /\ [][\A c \in Controllers :
            (pc[c] = "loop" /\ pc'[c] = "loop" /\ iterations'[c] # iterations[c])
                => stateFile' = <<SaveState(stack'[c], currentTask'[c],
                                            results'[c], stats'[c])>>]_vars
    /\ [][\A c \in Controllers :
            (pc[c] = "loop" /\ pc'[c] = "done") => stateFile' = Nil]_vars
    /\ [][\A c \in Controllers :
            (pc[c] = "idle" /\ pc'[c] = "loop" /\ stateFile # Nil)
                => /\ h'[c].resumed
                   /\ stack'[c] = LoadState(stateFile[1]).stack
                   /\ results'[c] = LoadState(stateFile[1]).results
                   /\ stats'[c] = LoadState(stateFile[1]).stats]_vars

\* a controller whose process was killed in a run resumes, in a new process,
\* from a snapshot whose root it never worked on, a state it never had: the
\* other controller wrote it over its own
C24_Witness ==
    \E c \in Controllers :
        /\ pc[c] = "loop"
        /\ iterations[c] = 0
        /\ h[c].resumed
        /\ h[c].roots # {}
        /\ RootOf(MemoryOf(c)) \notin h[c].roots

(***************************************************************************)
(* C25                                                                     *)
(***************************************************************************)
\* C25: processResult of a continuation pushes the current task on the stack
\* as it is, ChildResults included, and makes current a task one level deeper
\* with the agent type, task, context and return label of the request and empty
\* ChildResults; results, the cache directory, TotalTokens and TotalCostUSD
\* stay as they were.
C25_ContinuationStep ==
    [][(pc = "process" /\ result # Nil /\ IsContinuation(result[1]))
        => LET c == result[1].Continuation[1] IN
           /\ stack' = Append(stack, currentTask)
           /\ currentTask' =
                [AgentType |-> c.AgentType, TaskDescription |-> c.Task,
                 Context |-> c.Context, Depth |-> currentTask.Depth + 1,
                 ReturnTo |-> <<c.ReturnTo>>, ChildResults |-> EmptyMap]
           /\ results' = results
           /\ cacheFiles' = cacheFiles
           /\ stats'.TotalTokens = stats.TotalTokens
           /\ stats'.TotalCostUSD = stats.TotalCostUSD]_vars

\* after a continuation of a task that held the result of an earlier child:
\* the task is on the stack with that result
C25_Witness ==
    /\ pc = "check"
    /\ Len(stack) = 1
    /\ stack[1].ChildResults # EmptyMap
    /\ currentTask.Depth = 1
    /\ currentTask.ChildResults = EmptyMap
    /\ iterations >= 1

C27_StackBound ==
    /\ [](h["b"].runs = 0
            => /\ Len(stack["a"]) <= MaxRecursionDepth + 1
               /\ currentTask["a"].Depth <= MaxRecursionDepth + 1)
    /\ [][(/\ h["b"].runs = 0 /\ pc["a"] = "loop" /\ pc'["a"] # "idle"
           /\ stack'["a"] # stack["a"])
            => \/ /\ stack'["a"] = Append(stack["a"], currentTask["a"])
                  /\ currentTask'["a"].Depth = currentTask["a"].Depth + 1
               \/ /\ stack["a"] # <<>>
                  /\ stack'["a"] = SubSeq(stack["a"], 1, Len(stack["a"]) - 1)
                  /\ currentTask'["a"].Depth = stack["a"][Len(stack["a"])].Depth
                  /\ pc'["a"] \in {"loop", "done"}]_vars

(***************************************************************************)
(* C28                                                                     *)
(***************************************************************************)
\* C28: in an invocation that restored no snapshot TotalSubagentCalls is the
\* number of dispatcher calls made so far, whatever they returned, and between
\* two iterations TotalSubagentCalls + CacheHits is the number of outcomes
\* obtained so far.
C28_CallsCounted ==
    /\ (h.entered /\ h.fresh) => stats.TotalSubagentCalls = h.calls
    /\ (h.entered /\ h.fresh /\ pc = "check")
            => stats.TotalSubagentCalls + stats.CacheHits = h.resolved

(***************************************************************************)
(* C29                                                                     *)
(***************************************************************************)
\* C29: TotalTokens is the sum of the token counts of the analysis results
\* processed in the invocation: it is 0 when an invocation starts without a
\* snapshot, processResult of an analysis result adds its TokenCount, whether
\* the dispatcher returned it or the cache did, and no other step of the loop
\* changes it, a continuation included.
C29_TokensAreSummed ==
    /\ [][(pc = "process" /\ result # Nil /\ IsAnalysis(result[1]))
            => stats'.TotalTokens
                 = stats.TotalTokens + result[1].Analysis[1].TokenCount]_vars
    /\ [][(/\ pc \in {"check", "dispatch", "process"}
           /\ pc' # "idle"
           /\ ~(pc = "process" /\ result # Nil /\ IsAnalysis(result[1])))
            => stats'.TotalTokens = stats.TotalTokens]_vars
    /\ [][(pc \in Returned /\ pc' = "check" /\ h'.fresh)
            => stats'.TotalTokens = 0]_vars

\* an invocation that ended on a cached result without a dispatcher call: the
\* tokens of the cached result are in TotalTokens
C29_Witness ==
    /\ pc = "done"
    /\ h.hit
    /\ h.fresh
    /\ stats.TotalSubagentCalls = 0
    /\ stats.CacheHits = 1
    /\ stats.TotalTokens = ret.val[1].TokenCount
    /\ stats.TotalTokens > 0

(***************************************************************************)
(* C30                                                                     *)
(***************************************************************************)
\* C30: MaxDepthReached is the largest depth of a task for which the loop went
\* on to the cache check and the dispatcher: it is 0 when an invocation starts
\* without a snapshot, the step that passes the safety checks raises it to the
\* depth of the current task when that is larger, and no other step of the loop
\* changes it; so it covers the depth of the task being resolved, it never
\* decreases, and it is never larger than MaxRecursionDepth.
C30_MaxDepthReached ==
    /\ [](stats.MaxDepthReached <= MaxRecursionDepth)
    /\ [](pc \in {"dispatch", "process"}
            => stats.MaxDepthReached >= currentTask.Depth)
    /\ [][(pc = "check" /\ pc' = "dispatch")
            => stats'.MaxDepthReached
                 = IF currentTask.Depth > stats.MaxDepthReached
                   THEN currentTask.Depth ELSE stats.MaxDepthReached]_vars
    /\ [][(/\ pc \in {"check", "dispatch", "process"}
           /\ pc' \notin {"idle", "dispatch"})
            => stats'.MaxDepthReached = stats.MaxDepthReached]_vars
    /\ [][(pc \in Returned /\ pc' = "check" /\ h'.fresh)
            => stats'.MaxDepthReached = 0]_vars

\* a task at depth MaxRecursionDepth was resolved and the loop is back at its
\* parent: MaxDepthReached keeps the larger depth
C30_Witness ==
    /\ pc = "check"
    /\ stats.MaxDepthReached = MaxRecursionDepth
    /\ currentTask.Depth = MaxRecursionDepth - 1
    /\ Len(stack) = MaxRecursionDepth - 1
    /\ stats.TotalTokens > 0

(***************************************************************************)
(* C31                                                                     *)
(***************************************************************************)
\* C31: an invocation that restores a snapshot whose current task is deeper than
\* MaxRecursionDepth enters the loop with that task, and the first iteration of
\* a loop entered with a task that deep returns ErrMaxDepthExceeded without a
\* dispatcher call and without a change to the cache directory, the snapshot
\* file or the stats.
C31_FailFastOnResume ==
    /\ [][(/\ pc \in Returned /\ pc' = "check" /\ Restorable
           /\ stateFile[1].current_task.depth > MaxRecursionDepth)
            => /\ currentTask'.Depth > MaxRecursionDepth
               /\ currentTask' = DecodeTask(stateFile[1].current_task)]_vars
    /\ [][(/\ pc = "check" /\ iterations = 0 /\ pc' # "idle"
           /\ currentTask.Depth > MaxRecursionDepth)
            => /\ pc' = "failed"
               /\ ret'.err = ErrMaxDepthExceeded
               /\ h'.calls = 0
               /\ cacheFiles' = cacheFiles
               /\ stateFile' = stateFile
               /\ stats' = stats]_vars

(***************************************************************************)
(* C32                                                                     *)
(***************************************************************************)
\* C32 as stated: processResult of an analysis result with the cache enabled
\* always leaves, under the key of the task that was current, a file holding
\* that result.
C32_EveryResultIsStored ==
    [][(pc = "process" /\ result # Nil /\ IsAnalysis(result[1]) /\ cacheEnabled)
        => LET k == GenerateCacheKey(currentTask) IN
           /\ k \in DOMAIN cacheFiles'
           /\ Unmarshals(cacheFiles'[k])
           /\ DecodeAnalysis(cacheFiles'[k].result) = result[1].Analysis[1]]_vars

\* C32, amended: the orchestrator creates or changes a cache file in one place
\* only: processResult of an analysis result with the cache enabled either
\* fails to write and leaves the cache directory as it was, or leaves, under
\* the key of the task that was current, a file holding that result and
\* stamped with the current time, every other file being as it was;
\* processResult of a continuation or of an unknown outcome leaves the cache
\* directory as it was, a dispatch that ends in an error creates and changes
\* no file, and with the cache disabled there is never a file.
C32_EntriesComeFromResults ==
    /\ [][(pc = "process" /\ result # Nil /\ IsAnalysis(result[1]) /\ cacheEnabled)
            => IF ~h'.stored THEN cacheFiles' = cacheFiles
               ELSE LET k == GenerateCacheKey(currentTask) IN
                    /\ k \in DOMAIN cacheFiles'
                    /\ Unmarshals(cacheFiles'[k])
                    /\ DecodeAnalysis(cacheFiles'[k].result) = result[1].Analysis[1]
                    /\ cacheFiles'[k].timestamp = now
                    /\ DOMAIN cacheFiles' = DOMAIN cacheFiles \cup {k}
                    /\ \A j \in DOMAIN cacheFiles \ {k} :
                          cacheFiles'[j] = cacheFiles[j]]_vars
    /\ [][(pc = "process" /\ result # Nil /\ ~IsAnalysis(result[1]))
            => cacheFiles' = cacheFiles]_vars
    /\ [][(pc # "idle" /\ ~(pc = "process" /\ result # Nil /\ IsAnalysis(result[1])))
            => \A k \in DOMAIN cacheFiles' :
                 k \in DOMAIN cacheFiles /\ cacheFiles'[k] = cacheFiles[k]]_vars
    /\ [](~cacheEnabled => cacheFiles = <<>>)

\* the dispatcher was called, the run ended on its analysis result, and the
\* file of the task holds that result
C32_Witness ==
    /\ pc = "done"
    /\ cacheEnabled
    /\ ~h.hit /\ h.stored
    /\ h.calls >= 1
    /\ GenerateCacheKey(h.task) \in DOMAIN cacheFiles
    /\ <<DecodeAnalysis(cacheFiles[GenerateCacheKey(h.task)].result)>> = ret.val

(***************************************************************************)
(* C33                                                                     *)
(***************************************************************************)
\* the file of the current task after a cache hit was processed
Refreshed(files) == files[GenerateCacheKey(currentTask)]

\* C33 as stated: processResult of a result that came from the cache always
\* leaves the file of the task holding the same result, stamped with the
\* current time and carrying the configured TTL, so that it expires CacheTTL
\* after the hit.
C33_HitAlwaysRefreshes ==
    [][(pc = "process" /\ h.hit)
        => /\ GenerateCacheKey(currentTask) \in DOMAIN cacheFiles'
           /\ Refreshed(cacheFiles').result = Refreshed(cacheFiles).result
           /\ Refreshed(cacheFiles').timestamp = now
           /\ Refreshed(cacheFiles').ttl = CacheTTL
           /\ ~Expired(Refreshed(cacheFiles'), now + CacheTTL)]_vars

\* C33, amended: processResult of a result that came from the cache stores it
\* again; unless that write fails (then the file stays as it was, with the time
\* of the earlier store) the file of the task holds the same result, is stamped
\* with the current time and carries the configured TTL, so that a CheckCache
\* up to CacheTTL after the hit finds it and one later than that does not.
C33_HitRefreshesEntry ==
    [][(pc = "process" /\ h.hit)
        => /\ GenerateCacheKey(currentTask) \in DOMAIN cacheFiles
           /\ GenerateCacheKey(currentTask) \in DOMAIN cacheFiles'
           /\ IF ~h'.stored THEN cacheFiles' = cacheFiles
              ELSE /\ Refreshed(cacheFiles').result = Refreshed(cacheFiles).result
                   /\ Refreshed(cacheFiles').timestamp = now
                   /\ Refreshed(cacheFiles').ttl = CacheTTL
                   /\ CheckCache(cacheEnabled, cacheFiles', currentTask,
                                 now + CacheTTL).result = result[1].Analysis
                   /\ CheckCache(cacheEnabled, cacheFiles', currentTask,
                                 now + CacheTTL + 1).result = Nil]_vars

\* an invocation whose root task was answered from the cache some time after the
\* file was stored returned, and the file carries the time of the hit
C33_Witness ==
    /\ pc = "done"
    /\ h.hit /\ h.stored
    /\ h.calls = 0
    /\ now >= 1
    /\ cacheFiles[GenerateCacheKey(h.task)].timestamp = now

(***************************************************************************)
(* C34                                                                     *)
(***************************************************************************)
\* no counter of b is below the same counter of a
StatsLeq(a, b) ==
    /\ a.TotalSubagentCalls <= b.TotalSubagentCalls
    /\ a.TotalTokens <= b.TotalTokens
    /\ a.TotalCostUSD <= b.TotalCostUSD
    /\ a.CacheHits <= b.CacheHits
    /\ a.MaxDepthReached <= b.MaxDepthReached

\* an invocation of AnalyzeDocument on this Orchestrator value gets to its loop
Starts == pc \in Returned /\ pc' = "check"

\* C34 as stated: no step of an Orchestrator value lowers a counter of its stats,
\* the start of an invocation that restores a snapshot included; only the start
\* of an invocation that restores nothing does.
C34_CountersNeverDecrease ==
    [][(pc' # "idle" /\ ~(Starts /\ h'.fresh)) => StatsLeq(stats, stats')]_vars

\* C34, amended: within one invocation no counter of the stats decreases; an
\* invocation that restores a snapshot starts from exactly the counters written
\* in it, which can be lower than the counters the interrupted invocation had
\* reached in memory; an invocation that restores nothing starts from zero; and
\* the stats are never all zero after an iteration resolved an outcome.
C34_CountersWithinInvocation ==
    /\ [][(pc \notin Returned /\ pc' # "idle") => StatsLeq(stats, stats')]_vars
    /\ [][Starts => stats' = IF h'.fresh THEN ZeroStats
                             ELSE DecodeStats(stateFile[1].stats)]_vars
    /\ [][(~Starts /\ pc' # "idle" /\ stats # ZeroStats) => stats' # ZeroStats]_vars
    /\ []((pc \in {"process", "done"} \/ (pc = "check" /\ h.resolved >= 1))
            => stats # ZeroStats)

\* an invocation that restored a snapshot has gone on and its counters are above
\* those of the snapshot
C34_Witness ==
    /\ ~h.fresh
    /\ pc \in {"process", "check", "done"}
    /\ h.resolved >= 1
    /\ h.loaded # ZeroStats
    /\ StatsLeq(h.loaded, stats)
    /\ stats # h.loaded

(***************************************************************************)
(* The orchestrator with CacheEnabled = false in a working directory where *)
(* earlier processes, run with the cache enabled, left cache files.        *)
(***************************************************************************)
\* the task a continuation of the root task for agent type "Worker" creates
WorkerTask ==
    [AgentType |-> "Worker", TaskDescription |-> "sub", Context |-> EmptyMap,
     Depth |-> 1, ReturnTo |-> <<"A">>, ChildResults |-> EmptyMap]

\* the cache directory and the time such a process can start with: no file; the
\* file an earlier invocation wrote for its root task, not expired; the file
\* one wrote for the child of its root task, expired since
Leftovers ==
    LET a == CHOOSE r \in AnalysisResults : r.Content = "r1" IN
    { [files |-> <<>>, time |-> 0],
      [files |-> StoreCache(TRUE, <<>>, RootTask("doc", "q1"), a, 0), time |-> 0],
      [files |-> StoreCache(TRUE, <<>>, WorkerTask, a, 0), time |-> MaxTime] }

NoCacheInit ==
    /\ dispatcher = FALSE
    /\ stack = <<>>
    /\ currentTask = ZeroTask
    /\ results = EmptyMap
    /\ stats = ZeroStats
    /\ iterations = 0
    /\ result = Nil
    /\ pc = "idle"
    /\ ret = NoReturn
    /\ stateFile = Nil
    /\ \E left \in Leftovers : cacheFiles = left.files /\ now = left.time
    /\ cacheEnabled = FALSE
    /\ h = NoHistory

NoCacheNext ==
    \/ New
    \/ CorruptState
    \/ SetDispatcher
    \/ \E documentPath \in Paths, query \in Queries : AnalyzeDocument(documentPath, query)
    \/ SafetyChecks
    \/ Dispatch
    \/ DispatchNoOutcome
    \/ ProcessResult

NoCacheSpec == NoCacheInit /\ [][NoCacheNext]_vars

(***************************************************************************)
(* C35                                                                     *)
(***************************************************************************)
\* C35: with CacheEnabled = false every iteration that passes the two safety
\* checks calls the dispatcher and none is answered from the cache, whatever
\* files the cache directory holds; CacheHits is 0 throughout; and no step
\* creates, changes or removes a cache file.
C35_DisabledCacheIsUntouched ==
    /\ [][(pc = "dispatch") => (h'.calls = h.calls + 1 /\ ~h'.hit)]_vars
    /\ [](stats.CacheHits = 0)
    /\ [][cacheFiles' = cacheFiles]_vars

\* an invocation found an unexpired file for its root task, called the
\* dispatcher all the same and returned what the dispatcher answered
C35_Witness ==
    /\ pc = "done"
    /\ h.calls = 1 /\ h.resolved = 1
    /\ GenerateCacheKey(h.task) \in DOMAIN cacheFiles
    /\ <<DecodeAnalysis(cacheFiles[GenerateCacheKey(h.task)].result)>> # ret.val

(***************************************************************************)
(* C36                                                                     *)
(***************************************************************************)
\* the snapshot file is readable and its current task is deeper than the limit
OverLimitSnapshot ==
    Restorable /\ stateFile[1].current_task.depth > MaxRecursionDepth

\* the invocation failed on the depth check
DepthFailure == pc = "failed" /\ ret.err = ErrMaxDepthExceeded

\* C36: when an invocation fails with ErrMaxDepthExceeded after its latest
\* SaveState wrote the file, the snapshot file holds a current task deeper than
\* the limit; as long as the file holds such a task it stays as it is, and every invocation that follows, in this process or in a later one and
\* whatever its documentPath and query, takes that task from the file and fails
\* with ErrMaxDepthExceeded at its first check, the dispatcher not being called.
C36_DepthFailureIsSticky ==
    /\ []((DepthFailure /\ h.saved) => OverLimitSnapshot)
    /\ [][(OverLimitSnapshot /\ pc \in Returned /\ ~(pc = "idle" /\ pc' = "idle"))
            => /\ stateFile' = stateFile
               /\ (pc' = "check" => currentTask'.Depth > MaxRecursionDepth)]_vars
    /\ [][(OverLimitSnapshot /\ pc = "check" /\ iterations = 0 /\ pc' # "idle")
            => /\ pc' = "failed"
               /\ ret'.err = ErrMaxDepthExceeded
               /\ h'.calls = 0
               /\ stateFile' = stateFile]_vars

(***************************************************************************)
(* C37                                                                     *)
(***************************************************************************)
\* the members of the snapshot document
SnapshotMembers == {"stack", "current_task", "results", "stats"}

\* C37: the snapshot has no member for the iteration counter; every invocation,
\* resumed or not, enters its loop with the counter at 0; an iteration fails
\* with ErrMaxIterationsExceeded exactly when this invocation has already made
\* MaxIterations of them, whatever the restored stats say; so an invocation
\* resolves at most MaxIterations outcomes and the invocations of a controller
\* together at most MaxIterations each.
C37_IterationsPerInvocation ==
    /\ [](Restorable => DOMAIN stateFile[1] = SnapshotMembers)
    /\ [](\A c \in Controllers : iterations[c] <= MaxIterations + 1)
    /\ [](\A c \in Controllers : h[c].total <= h[c].runs * MaxIterations)
    /\ [][\A c \in Controllers :
            /\ (pc[c] = "idle" /\ pc'[c] = "loop") => iterations'[c] = 0
            /\ (pc[c] = "loop" /\ pc'[c] = "failed"
                  /\ ret'[c].err = ErrMaxIterationsExceeded)
                 => iterations[c] = MaxIterations
            /\ (pc[c] = "loop" /\ pc'[c] # "idle"
                  /\ currentTask[c].Depth <= MaxRecursionDepth
                  /\ iterations[c] < MaxIterations)
                 => ~(pc'[c] = "failed" /\ ret'[c].err = ErrMaxIterationsExceeded)
            /\ h'[c].total = h[c].total + 1
                 => (iterations[c] < MaxIterations /\ iterations'[c] = iterations[c] + 1)]_vars

\* controller a used up its MaxIterations, controller b restored the snapshot a
\* left and resolved one more outcome of the computation
C37_Witness ==
    /\ pc["a"] = "failed" /\ ret["a"].err = ErrMaxIterationsExceeded
    /\ h["a"].runs = 1 /\ h["a"].total = MaxIterations
    /\ h["b"].resumed /\ h["b"].runs = 1 /\ h["b"].total >= 1
    /\ h["a"].total + h["b"].total > MaxIterations

(***************************************************************************)
(* C38                                                                     *)
(***************************************************************************)
\* the outcomes recorded in a stats value
Outcomes(s) == s.TotalSubagentCalls + s.CacheHits

\* the orchestrator fields after the step are what processResult computed
MemoryIsProcessed ==
    LET p == processResult(result[1]) IN
    /\ stack' = p.stack
    /\ currentTask' = p.currentTask
    /\ results' = p.results
    /\ stats' = p.stats

\* C38: an iteration whose SaveState fails goes on to the next iteration with
\* the stack, current task, results and stats processResult computed and no
\* error, the snapshot file staying as it was, so that a readable file records
\* fewer outcomes than the memory; an iteration whose StoreCache fails goes on or
\* returns its result in the same way, the cache directory staying as it was.
C38_FailedWritesDoNotAbort ==
    /\ [][(pc = "process" /\ pc' = "check" /\ ~h'.saved)
            => /\ MemoryIsProcessed
               /\ ret' = ret
               /\ stateFile' = stateFile
               /\ Restorable
                    => Outcomes(DecodeStats(stateFile[1].stats)) < Outcomes(stats')]_vars
    /\ [][(pc = "process" /\ pc' # "idle" /\ IsAnalysis(result[1]) /\ ~h'.stored)
            => /\ MemoryIsProcessed
               /\ cacheFiles' = cacheFiles
               /\ pc' \in {"check", "done"}
               /\ pc' = "done" => ret' = [val |-> result[1].Analysis, err |-> ErrNone]]_vars
    /\ [][(pc = "process" /\ pc' # "idle" /\ processResult(result[1]).err = ErrNone)
            => pc' \in {"check", "done"}]_vars

\* an invocation returned its result although the SaveState of the iteration
\* before and the StoreCache of the last one failed
C38_Witness ==
    /\ pc = "done"
    /\ cacheEnabled
    /\ h.resolved >= 2
    /\ ~h.saved
    /\ ~h.stored
    /\ ret.val # Nil

(***************************************************************************)
(* The cache with agent types and descriptions that contain the separator  *)
(* of the key string.  Both are free text: the agent type comes from a     *)
(* continuation request, the description from it or from the query.        *)
(***************************************************************************)
SeparatorRoles == {"a", "a|b"}

SeparatorDescriptions == {"c", "b|c"}

SeparatorTasks ==
    [AgentType : SeparatorRoles, TaskDescription : SeparatorDescriptions,
     Context : {EmptyMap}, Depth : {0}, ReturnTo : {Nil}, ChildResults : {EmptyMap}]

KeyInit ==
    /\ dispatcher = FALSE
    /\ stack \in SeparatorTasks \X SeparatorTasks
    /\ currentTask = ZeroTask
    /\ results = EmptyMap
    /\ stats = ZeroStats
    /\ iterations = 0
    /\ result = Nil
    /\ pc = "cache"
    /\ ret = NoReturn
    /\ stateFile = Nil
    /\ cacheFiles = <<>>
    /\ now = 0
    /\ cacheEnabled = TRUE
    /\ h = [op |-> "none", key |-> "", other |-> FALSE]

KeySpec == KeyInit /\ [][CacheNext]_vars

(***************************************************************************)
(* C39                                                                     *)
(***************************************************************************)
\* C39: two tasks for which GenerateCacheKey gives the same key string have the
\* same agent type, description and context, also when these contain "|": a
\* StoreCache or CheckCache that uses the key, and so the file, of the call
\* before it is for a task that agrees with the task of that call in all three.
C39_KeyIsInjective ==
    [][(h.op # "none" /\ h'.op # "none" /\ h'.key = h.key)
        => SameRoleDescContext(currentTask, currentTask')]_vars

====
